---------------------------- MODULE Spec2Model ----------------------------
(***************************************************************************)
(* Model of expand_diplomatic: the block-by-block expansion pipeline of    *)
(* expander.py (expand_xml / _expand_once) together with the file session  *)
(* helpers of run_gemini.py.                                               *)
(*                                                                         *)
(* A document is the sequence of its elements in document (pre-order)      *)
(* order.  Every element keeps the identity (id) it had in the input, its  *)
(* local tag name, the id of its parent (0 for the root), its attributes,  *)
(* its text (the characters before its first child) and its tail (the      *)
(* characters after its end tag).  Texts are sequences of characters.      *)
(* Block ordinals are 1-based here (the code's index i is ordinal i+1, the *)
(* number it passes to progress_callback).                                 *)
(***************************************************************************)
EXTENDS Integers, Sequences, FiniteSets, TLC

(* ------------------------------ bounds --------------------------------- *)

\* largest number of blocks of the flat sample documents
MaxBlocks == 3
\* largest number of elements of a generated document tree
MaxNodes == 3
\* largest value of the passes argument drawn as an input
MaxPassesArg == 2
\* largest value of the max_concurrent argument drawn as an input
MaxConcurrentArg == 3

(* --------------------------- program constants ------------------------- *)

\* expand_xml clamps passes to 1..MaxPassClamp
MaxPassClamp == 5
\* _get_max_concurrent: default for the gemini backend
DefaultConcurrentGemini == 2
\* _get_max_concurrent: default for the local backend without a high-end GPU
DefaultConcurrentLocal == 6

\* None as an argument is the empty set (block_tags) or the empty sequence
\* (max_concurrent); None as a slot of the results buffer is NoResult
NoResult == <<"None">>
NoOrdinal == 0 - 1
NoText == <<"<none>">>

\* the local tag names of the model's documents; "p" and "seg" are in
\* TEXT_BLOCK_TAGS, "hi" is not
TEXT_BLOCK_TAGS == {"p", "seg"}
Whitespace == {" "}

(* ------------------------------ documents ------------------------------ *)

Max(a, b) == IF a >= b THEN a ELSE b
Min(a, b) == IF a <= b THEN a ELSE b

RECURSIVE IsDescendant(_, _, _)
\* el.iter() / list(el): d lies strictly below a
IsDescendant(doc, d, a) ==
    LET ps == {doc[k].par : k \in {j \in 1..Len(doc) : doc[j].id = d}}
    IN  \E p \in ps : p # 0 /\ (p = a \/ IsDescendant(doc, p, a))

NodeOf(doc, el) == doc[CHOOSE k \in 1..Len(doc) : doc[k].id = el]

\* the elements el.iter() visits: el itself and its descendants, document order
IterOf(doc, el) ==
    SelectSeq(doc, LAMBDA n : n.id = el \/ IsDescendant(doc, n.id, el))

\* list(el): the direct children of el, in document order
ChildrenOf(doc, el) == SelectSeq(doc, LAMBDA n : n.par = el)

\* str.strip() leaves nothing
IsBlank(t) == \A k \in 1..Len(t) : t[k] \in Whitespace

\* _local_name(el) in tags
LocalNameIn(n, tags) == n.tag \in tags

RECURSIVE InnerText(_, _)
RECURSIVE ChildrenText(_, _)
\* _inner_text: "".join(el.itertext()), the text of el, then for each child
\* its own itertext followed by its tail
InnerText(doc, el) == NodeOf(doc, el).text \o ChildrenText(doc, ChildrenOf(doc, el))
ChildrenText(doc, cs) ==
    IF cs = << >> THEN << >>
    ELSE InnerText(doc, Head(cs).id) \o Head(cs).tail \o ChildrenText(doc, Tail(cs))

RECURSIVE ScanDescendants(_, _, _)
ScanDescendants(s, el, tags) ==
    IF s = << >> THEN FALSE
    ELSE IF Head(s).id = el THEN ScanDescendants(Tail(s), el, tags)
    ELSE IF LocalNameIn(Head(s), tags) THEN TRUE
    ELSE ScanDescendants(Tail(s), el, tags)

\* _has_descendant_block
HasDescendantBlock(doc, el, tags) == ScanDescendants(IterOf(doc, el), el, tags)

\* faulty variant of QualifiesAsBlock (C6 must tell them apart): the
\* nested-container test is forgotten
QualifiesIgnoringDescendants(doc, n, tags) ==
    /\ LocalNameIn(n, tags)
    /\ ~IsBlank(InnerText(doc, n.id))

\* the three tests of the extraction loop, in the order the code makes them
QualifiesAsBlock(doc, n, tags) ==
    /\ LocalNameIn(n, tags)
    /\ ~HasDescendantBlock(doc, n.id, tags)
    /\ ~IsBlank(InnerText(doc, n.id))

RECURSIVE ScanBlocks(_, _, _)
ScanBlocks(s, doc, tags) ==
    IF s = << >> THEN << >>
    ELSE IF QualifiesAsBlock(doc, Head(s), tags)
         THEN <<[el |-> Head(s).id, raw |-> InnerText(doc, Head(s).id)]>>
                  \o ScanBlocks(Tail(s), doc, tags)
         ELSE ScanBlocks(Tail(s), doc, tags)

\* tags = block_tags or TEXT_BLOCK_TAGS
EffectiveTags(block_tags) ==
    IF block_tags = {} THEN TEXT_BLOCK_TAGS ELSE block_tags

\* the block list of a pass: for el in root.iter(): ... blocks.append((el, raw))
ExtractBlocks(doc, block_tags) == ScanBlocks(doc, doc, EffectiveTags(block_tags))

\* faulty variant of SetInnerText (C5 must tell them apart): el.clear() before
\* el.text = text, which also drops the attributes and the tail
SetInnerTextClear(doc, el, text) ==
    LET kept == SelectSeq(doc, LAMBDA n : ~IsDescendant(doc, n.id, el))
    IN  [k \in 1..Len(kept) |->
            IF kept[k].id = el
            THEN [kept[k] EXCEPT !.text = text, !.att = 0, !.tail = << >>]
            ELSE kept[k]]

\* _set_inner_text: remove every child of el (with its subtree), el.text = text
SetInnerText(doc, el, text) ==
    LET kept == SelectSeq(doc, LAMBDA n : ~IsDescendant(doc, n.id, el))
    IN  [k \in 1..Len(kept) |->
            IF kept[k].id = el THEN [kept[k] EXCEPT !.text = text] ELSE kept[k]]


(* ------------------------- transform backends -------------------------- *)

\* the text a successful backend call returns for a block text: the model's
\* stand-in for the expansion, different from its argument and injective
Expand(text) == <<"x">> \o text

NoError == [type |-> "none", ordinal |-> NoOrdinal, text |-> NoText]
\* raise ExpandCancelled("Expansion cancelled by user.")
Cancelled == [type |-> "ExpandCancelled", ordinal |-> NoOrdinal, text |-> NoText]
\* what run_gemini / run_local raise (RuntimeError, APIError, TimeoutError)
BackendError == [type |-> "BackendError", ordinal |-> NoOrdinal, text |-> NoText]
\* ex["diplomatic"] / ex["full"] on an example that lacks the key
ExampleKeyError == [type |-> "KeyError", ordinal |-> NoOrdinal, text |-> NoText]
\* root.iter() when etree.fromstring(..., recover=True) has returned None
NoRootError == [type |-> "AttributeError", ordinal |-> NoOrdinal, text |-> NoText]
\* _get_api_key / client.files.upload failing inside prepare_file_session
SessionError == [type |-> "SessionError", ordinal |-> NoOrdinal, text |-> NoText]

\* expand_one: the value it returns for block (i, raw) when the backend
\* answers; in dry-run mode the raw text itself
ExpandOneResult(dry_run, raw) == IF dry_run THEN raw ELSE Expand(raw)

\* variant of ExpandOneRaises (C10 must tell them apart): the failure is
\* wrapped in a typed error
ExpandOneWraps(i, raw, exc) ==
    [type |-> "BlockTransformError", ordinal |-> i, text |-> raw]

\* expand_one has no try/except: what the backend raised is what leaves it
ExpandOneRaises(i, raw, exc) == exc

\* _expand_whole_document: the document the model returns when it follows its
\* instruction ("only change the text content inside elements")
WholeDocumentReply(doc) ==
    [k \in 1..Len(doc) |->
        IF IsBlank(doc[k].text) THEN doc[k]
        ELSE [doc[k] EXCEPT !.text = Expand(doc[k].text)]]

(* ------------------------------ scheduling ----------------------------- *)

\* _get_max_concurrent with EXPANDER_MAX_CONCURRENT unset and no high-end GPU
GetMaxConcurrent(backend) ==
    IF backend = "local" THEN DefaultConcurrentLocal ELSE DefaultConcurrentGemini

\* max_concurrent if max_concurrent is not None else
\*     (_get_max_concurrent(backend) if not dry_run else 1)
ConfiguredConcurrent(arg, backend, dry_run) ==
    IF arg # << >> THEN arg[1]
    ELSE IF dry_run THEN 1 ELSE GetMaxConcurrent(backend)

\* faulty variant of SessionConcurrent (C8 must tell them apart): the session
\* rule is forgotten
SessionConcurrentIgnored(mc, has_session) == mc

\* if client is not None and uploaded_file is not None: max_concurrent = 1
SessionConcurrent(mc, has_session) == IF has_session THEN 1 ELSE mc

\* if max_concurrent <= 1 or total <= 1: the sequential loop
UseSequential(mc, n) == mc <= 1 \/ n <= 1

\* faulty variant of PoolSize (C7 must tell them apart): one worker too many
PoolSizePlusOne(mc) == mc + 1

\* ThreadPoolExecutor(max_workers=max_concurrent)
PoolSize(mc) == mc

\* faulty variant of ApplySlot (C1 must tell them apart): the result just
\* completed is applied
ApplySlotCompleted(nta, i) == i

\* the slot the in-order loop applies: results[next_to_apply], whatever
\* future i has just completed
ApplySlot(nta, i) == nta + 1

\* faulty variant of ClampPasses (C14 must tell them apart): no upper limit
ClampPassesUnbounded(p) == Max(1, p)

\* passes = max(1, min(5, passes))
ClampPasses(p) == Max(1, Min(MaxPassClamp, p))

\* the session conditions of the two branches of _expand_once
WholeDocWantsSession(c, pn) == pn = 0 /\ c.input_file /\ ~c.examples_path
BlockWantsSession(c, pn) ==
    ~c.dry_run /\ c.backend = "gemini" /\ pn = 0 /\ c.input_file

\* if whole_document and backend == "gemini" and not dry_run
WholeDocBranch(c) == c.whole_document /\ c.backend = "gemini" /\ ~c.dry_run

(* ---------------------------- sample inputs ---------------------------- *)

El(id, tag, par, text, tail) ==
    [id |-> id, tag |-> tag, par |-> par, att |-> id, text |-> text, tail |-> tail]

\* a source that is not XML at all ("-", "{}"): the recovering parser finds
\* no element in it
NotXmlDoc == << >>

\* <root><p>a</p> ... <p>a</p></root> with n blocks
FlatDoc(n) ==
    <<El(1, "hi", 0, << >>, << >>)>> \o
        [k \in 1..n |-> El(k + 1, "p", 1, <<"a">>, <<" ">>)]

\* <root><p>a<hi>b</hi>c</p><p><seg>d</seg> <seg> </seg></p></root>
NestedDoc ==
    << El(1, "hi", 0, << >>, << >>),
       El(2, "p", 1, <<"a">>, << >>),
       El(3, "hi", 2, <<"b">>, <<"c">>),
       El(4, "p", 1, << >>, << >>),
       El(5, "seg", 4, <<"d">>, <<" ">>),
       El(6, "seg", 4, <<" ">>, << >>) >>

SampleDocs == {FlatDoc(n) : n \in 0..MaxBlocks} \cup {NestedDoc}

\* every combination of the arguments; an argument the chosen branch never
\* reads is drawn at one value only (examples_path is read by the
\* whole-document branch alone, the examples by a backend call alone, and
\* input_file_path only when backend == "gemini" and not dry_run); may_fail
\* says whether the backend of this run raises for some of its calls
AllConfigs ==
    [ doc : SampleDocs,
      passes : 0..MaxPassesArg,
      dry_run : BOOLEAN,
      backend : {"gemini", "local"},
      whole_document : BOOLEAN,
      input_file : BOOLEAN,
      examples_path : BOOLEAN,
      examples_ok : BOOLEAN,
      block_tags : {{}},
      max_concurrent : {<< >>} \cup {<<n>> : n \in 0..MaxConcurrentArg},
      may_fail : {TRUE} ]

Configs ==
    { c \in AllConfigs :
        /\ c.examples_path => WholeDocBranch(c)
        /\ ~c.examples_ok => (~c.dry_run /\ ~WholeDocBranch(c))
        /\ c.input_file => (c.backend = "gemini" /\ ~c.dry_run) }

(* ------------------------------ examples ------------------------------- *)

\* A text is a sequence of characters; "u2013" (en dash), "u200b" (zero width
\* space), "u00a0" (no-break space) and "uff41" (fullwidth a) stand for the
\* characters of those code points.  A pair is a record (diplomatic, full,
\* pro); pro is FALSE where the JSON object has no "pro" key.

\* the most pairs written to the example files together
MaxPairs == 3
\* the most candidate pairs of one add_learned_pairs call
MaxCandidates == 2
\* the largest max_learned argument
MaxLearnedArg == 2

\* the characters str.strip() and \s take for whitespace
UnicodeSpace == {" ", "u00a0", "u2009", "u202f"}
\* _ZERO_WIDTH, _DASHES, _SINGLE_QUOTES, _DOUBLE_QUOTES
ZeroWidth == {"u200b", "u200c", "u200d", "ufeff"}
Dashes == {"u2010", "u2011", "u2012", "u2013", "u2014", "u2212"}
SingleQuotes == {"u2018", "u2019", "u201b", "u2032"}
DoubleQuotes == {"u201c", "u201d", "u201f", "u2033"}

\* str.strip()
RECURSIVE StripLeft(_)
StripLeft(t) ==
    IF t # << >> /\ Head(t) \in UnicodeSpace THEN StripLeft(Tail(t)) ELSE t
RECURSIVE StripRight(_)
StripRight(t) ==
    IF t # << >> /\ t[Len(t)] \in UnicodeSpace
    THEN StripRight(SubSeq(t, 1, Len(t) - 1))
    ELSE t
Strip(t) == StripRight(StripLeft(t))

\* unicodedata.normalize("NFC", text) on the model's characters: a followed
\* by the combining tilde is one character
RECURSIVE NFC(_)
NFC(t) ==
    IF t = << >> THEN << >>
    ELSE IF Len(t) >= 2 /\ t[1] = "a" /\ t[2] = "u0303"
         THEN <<"u00e3">> \o NFC(SubSeq(t, 3, Len(t)))
         ELSE <<Head(t)>> \o NFC(Tail(t))

\* the compatibility decomposition of a character: the fullwidth a, the
\* no-break and thin spaces, the non-breaking hyphen, the double prime
Compat(ch) ==
    IF ch = "uff41" THEN <<"a">>
    ELSE IF ch \in {"u00a0", "u2009", "u202f"} THEN <<" ">>
    ELSE IF ch = "u2011" THEN <<"u2010">>
    ELSE IF ch = "u2033" THEN <<"u2032", "u2032">>
    ELSE <<ch>>

RECURSIVE Decompose(_)
Decompose(t) ==
    IF t = << >> THEN << >> ELSE Compat(Head(t)) \o Decompose(Tail(t))

\* unicodedata.normalize("NFKC", text) on the model's characters
NFKC(t) == NFC(Decompose(t))

\* text.translate(_APPEARANCE_KEY_TRANS)
Translate(t) ==
    [k \in 1..Len(t) |->
        IF t[k] \in Dashes THEN "-"
        ELSE IF t[k] \in SingleQuotes THEN "'"
        ELSE IF t[k] \in DoubleQuotes THEN "\""
        ELSE IF t[k] \in {"u00a0", "u202f", "u2009"} THEN " "
        ELSE t[k]]

\* _WS_RE.sub(" ", text): every run of whitespace becomes one space
RECURSIVE CollapseSpaces(_)
CollapseSpaces(t) ==
    IF t = << >> THEN << >>
    ELSE IF Head(t) \in UnicodeSpace
         THEN <<" ">> \o CollapseSpaces(StripLeft(t))
         ELSE <<Head(t)>> \o CollapseSpaces(Tail(t))

\* appearance_key
AppearanceKey(text) ==
    Strip(CollapseSpaces(Translate(
        SelectSeq(NFKC(text), LAMBDA ch : ch \notin ZeroWidth))))

\* add_layer of load_examples: acc is (seen, out)
RECURSIVE AddLayer(_, _)
AddLayer(pairs, acc) ==
    IF pairs = << >> THEN acc
    ELSE LET e == Head(pairs)
             d == Strip(e.diplomatic)
             key == AppearanceKey(d)
         IN  IF d = << >> \/ key \in acc.seen
             THEN AddLayer(Tail(pairs), acc)
             ELSE AddLayer(Tail(pairs),
                           [seen |-> acc.seen \cup {key},
                            out |-> Append(acc.out,
                                           [diplomatic |-> d, full |-> Strip(e.full)])])

\* load_learned: the pairs of the file, the pro-derived ones first
\* (pairs.sort(key=...) is stable)
LoadLearned(file) ==
    SelectSeq(file, LAMBDA e : e.pro) \o SelectSeq(file, LAMBDA e : ~e.pro)

\* faulty variant of LoadExamplesResult (C18 must tell them apart): the
\* personal layer is merged first
LoadExamplesPersonalFirst(project, learned, personal, include_learned, include_personal) ==
    LET a1 == IF include_personal
              THEN AddLayer(personal, [seen |-> {}, out |-> << >>])
              ELSE [seen |-> {}, out |-> << >>]
        a2 == AddLayer(project, a1)
        a3 == IF include_learned THEN AddLayer(LoadLearned(learned), a2) ELSE a2
    IN  a3.out

\* load_examples: the value returned for the three files' pairs
LoadExamplesResult(project, learned, personal, include_learned, include_personal) ==
    LET a1 == AddLayer(project, [seen |-> {}, out |-> << >>])
        a2 == IF include_learned THEN AddLayer(LoadLearned(learned), a1) ELSE a1
        a3 == IF include_personal THEN AddLayer(personal, a2) ELSE a2
    IN  a3.out

\* a model name is the sequence of the lower-cased words of its name; None is
\* the empty sequence
ModelNames == {<< >>, <<"gemini", "pro">>}

\* _is_pro_model
IsProModel(model) == \E k \in 1..Len(model) : model[k] = "pro"

\* existing is a dict in insertion order: a sequence of (key, diplomatic,
\* full, pro) with distinct keys
HasKey(existing, key) == \E k \in 1..Len(existing) : existing[k].key = key
Lookup(existing, key) ==
    existing[CHOOSE k \in 1..Len(existing) : existing[k].key = key]

\* existing[key] = (d, full, pro): a known key keeps its place
DictPut(existing, key, d, f, pro) ==
    LET entry == [key |-> key, diplomatic |-> d, full |-> f, pro |-> pro]
    IN  IF HasKey(existing, key)
        THEN [k \in 1..Len(existing) |->
                 IF existing[k].key = key THEN entry ELSE existing[k]]
        ELSE Append(existing, entry)

\* for e in raw: ... existing[appearance_key(existing_diplomatic)] = (...)
RECURSIVE ExistingOf(_, _)
ExistingOf(raw, existing) ==
    IF raw = << >> THEN existing
    ELSE LET d == Strip(Head(raw).diplomatic)
         IN  ExistingOf(Tail(raw),
                        IF d = << >> THEN existing
                        ELSE DictPut(existing, AppearanceKey(d), d,
                                     Strip(Head(raw).full), Head(raw).pro))

\* local = {appearance_key(x) for x in (local_diplomatic or set()) if str(x).strip()}
LocalKeys(local_diplomatic) ==
    {AppearanceKey(x) : x \in {y \in local_diplomatic : Strip(y) # << >>}}

\* faulty variant of MergePair (C19 must tell them apart): the authoritative
\* keys are not looked at
MergePairIgnoringLocal(st, pair, is_pro, local) ==
    LET d == Strip(pair.diplomatic)
        f == Strip(pair.full)
        key == AppearanceKey(d)
    IN  IF d = << >> \/ d = f THEN st
        ELSE IF ~HasKey(st.existing, key)
             THEN [existing |-> DictPut(st.existing, key, d, f, is_pro),
                   added |-> st.added + 1]
        ELSE IF is_pro /\ ~Lookup(st.existing, key).pro
             THEN [existing |-> DictPut(st.existing, key, d, f, TRUE),
                   added |-> st.added + 1]
        ELSE IF ~is_pro /\ Lookup(st.existing, key).pro THEN st
        ELSE [existing |-> DictPut(st.existing, key, d, f, is_pro),
              added |-> st.added]

\* faulty variant of MergePair (C20 must tell them apart): the incoming pair
\* always takes the place of the stored one
MergePairLastWins(st, pair, is_pro, local) ==
    LET d == Strip(pair.diplomatic)
        f == Strip(pair.full)
        key == AppearanceKey(d)
    IN  IF d = << >> \/ d = f THEN st
        ELSE IF key \in local THEN st
        ELSE [existing |-> DictPut(st.existing, key, d, f, is_pro),
              added |-> st.added + (IF HasKey(st.existing, key) THEN 0 ELSE 1)]

\* one iteration of the loop over pairs; st is (existing, added)
MergePair(st, pair, is_pro, local) ==
    LET d == Strip(pair.diplomatic)
        f == Strip(pair.full)
        key == AppearanceKey(d)
    IN  IF d = << >> \/ d = f THEN st
        ELSE IF key \in local THEN st
        ELSE IF ~HasKey(st.existing, key)
             THEN [existing |-> DictPut(st.existing, key, d, f, is_pro),
                   added |-> st.added + 1]
        ELSE IF is_pro /\ ~Lookup(st.existing, key).pro
             THEN [existing |-> DictPut(st.existing, key, d, f, TRUE),
                   added |-> st.added + 1]
        ELSE IF ~is_pro /\ Lookup(st.existing, key).pro THEN st
        ELSE [existing |-> DictPut(st.existing, key, d, f, is_pro),
              added |-> st.added]

\* for pair in pairs: ...
RECURSIVE MergePairs(_, _, _, _)
MergePairs(st, pairs, is_pro, local) ==
    IF pairs = << >> THEN st
    ELSE MergePairs(MergePair(st, Head(pairs), is_pro, local), Tail(pairs), is_pro, local)

\* items[-n:]
LastN(items, n) ==
    IF n = 0 \/ n >= Len(items) THEN items
    ELSE SubSeq(items, Len(items) - n + 1, Len(items))

\* the cap: the pro items are kept first, then the newest of the others
Evict(items, max_learned) ==
    IF Len(items) <= max_learned THEN items
    ELSE LET pro_items == SelectSeq(items, LAMBDA x : x.pro)
             flash_items == SelectSeq(items, LAMBDA x : ~x.pro)
         IN  IF Len(pro_items) >= max_learned
             THEN LastN(pro_items, max_learned)
             ELSE pro_items \o LastN(flash_items, max_learned - Len(pro_items))

\* add_learned_pairs: the items written to the file and the count returned
AddLearnedResult(file, pairs, model, local_diplomatic, max_learned) ==
    LET st == MergePairs([existing |-> ExistingOf(LoadLearned(file), << >>), added |-> 0],
                         pairs, IsProModel(model), LocalKeys(local_diplomatic))
        items == [k \in 1..Len(st.existing) |->
                     [diplomatic |-> st.existing[k].diplomatic,
                      full |-> st.existing[k].full,
                      pro |-> st.existing[k].pro]]
    IN  [items |-> Evict(items, max_learned), added |-> st.added]

\* no call of add_learned_pairs is under way
NoCall == [called |-> FALSE, pairs |-> << >>, model |-> << >>, local |-> {},
           max_learned |-> 0, added |-> 0]
\* load_examples has not been called
NotLoaded == [called |-> FALSE, include_learned |-> FALSE, include_personal |-> FALSE,
              raised |-> FALSE, result |-> << >>]

\* the sequences of at most n elements of S
SeqsUpTo(S, n) == UNION {[1..k -> S] : k \in 0..n}

\* the (diplomatic, full) texts found in the example files: a blank
\* diplomatic text, two diplomatic texts that look the same (" a" and
\* fullwidth a) with two full texts each, a dash
FileTexts ==
    { << <<" ">>, <<"x">> >>,
      << <<" ", "a">>, <<"x">> >>,
      << <<" ", "a">>, <<"y", " ">> >>,
      << <<"uff41">>, <<"x">> >>,
      << <<"uff41">>, <<"y", " ">> >>,
      << <<"u2013">>, <<"x">> >> }
FilePairs(pros) ==
    {[diplomatic |-> t[1], full |-> t[2], pro |-> p] : t \in FileTexts, p \in pros}

\* the candidate pairs of add_learned_pairs calls: a blank one, one whose two
\* sides are equal, two with the same appearance key, a dash
CandidatePairs ==
    { [diplomatic |-> <<" ">>, full |-> <<"x">>],
      [diplomatic |-> <<"a">>, full |-> <<"a">>],
      [diplomatic |-> <<"a">>, full |-> <<"x">>],
      [diplomatic |-> <<"uff41">>, full |-> <<"x">>],
      [diplomatic |-> <<"u2013">>, full |-> <<"x">>] }

\* local_diplomatic: None, or the diplomatic forms of the project file
LocalSets == {{}, {<<" ">>, <<"a">>}}

(* ------------------------- selection for the prompt -------------------- *)

\* the longest list handed to select_examples_for_prompt
MaxSelect == 3

\* items[-n:] for any integer n
SliceLast(items, n) ==
    IF n >= 0 THEN LastN(items, n)
    ELSE SubSeq(items, (0 - n) + 1, Len(items))

\* key_fn = lambda e: len((e.get("diplomatic") or "").strip())
KeyFn(e) == Len(Strip(e.diplomatic))

\* sorted(examples, key=key_fn, reverse=True): a stable sort, the largest key
\* first
RECURSIVE SortedLargestFirst(_)
SortedLargestFirst(xs) ==
    IF xs = << >> THEN << >>
    ELSE LET x == xs[Len(xs)]
             acc == SortedLargestFirst(SubSeq(xs, 1, Len(xs) - 1))
             pos == Cardinality({i \in 1..Len(acc) : KeyFn(acc[i]) >= KeyFn(x)})
         IN  SubSeq(acc, 1, pos) \o <<x>> \o SubSeq(acc, pos + 1, Len(acc))

\* heapq.nlargest(n, examples, key=key_fn)
NLargest(n, xs) ==
    IF n <= 0 THEN << >>
    ELSE SubSeq(SortedLargestFirst(xs), 1, Min(n, Len(xs)))

\* faulty variant of SelectExamples (C27 must tell them apart): the first
\* max_examples pairs are taken whatever their length
SelectExamplesFirst(examples, max_examples, strategy) ==
    IF examples = << >> THEN << >>
    ELSE IF max_examples = << >> \/ max_examples[1] >= Len(examples) THEN examples
    ELSE IF strategy = "most-recent" THEN SliceLast(examples, max_examples[1])
    ELSE SubSeq(examples, 1, Max(max_examples[1], 0))

\* select_examples_for_prompt; max_examples is << >> for None, <<n>> otherwise
SelectExamples(examples, max_examples, strategy) ==
    IF examples = << >> THEN << >>
    ELSE IF max_examples = << >> \/ max_examples[1] >= Len(examples) THEN examples
    ELSE IF strategy = "most-recent" THEN SliceLast(examples, max_examples[1])
    ELSE NLargest(max_examples[1], examples)

\* the pairs of the lists to select from: diplomatic texts of the stripped
\* lengths 1, 1 (3 with its spaces), 2 and 3
SelectPairs ==
    { [diplomatic |-> <<"a">>, full |-> <<"x">>],
      [diplomatic |-> <<" ", " ", "a">>, full |-> <<"x">>],
      [diplomatic |-> <<"b", "c">>, full |-> <<"x">>],
      [diplomatic |-> <<"d", "e", "f">>, full |-> <<"x">>] }

\* the arguments of a select_examples_for_prompt call
SelectInputs ==
    [ fn : {"select_examples_for_prompt"},
      examples : SeqsUpTo(SelectPairs, MaxSelect),
      max_examples : {<< >>} \cup {<<n>> : n \in (0 - 1)..MaxSelect},
      strategy : {"longest-first", "most-recent"} ]

\* no function has been called, a call has not returned
NoArgs == [fn |-> "none"]
NoReturn == [called |-> FALSE, result |-> << >>]

(* --------------------------- the quality filter ------------------------ *)

\* the longest list handed to filter_quality
MaxFilter == 2

\* _PUNCT_RATIO_THRESHOLD = 0.8 as the fraction 4/5
PunctRatioNum == 4
PunctRatioDen == 5

\* the characters of the model's texts for which str.isalpha() holds, and
\* what (?i) takes for the same letter
LowerLetters ==
    { "a", "b", "c", "d", "e", "f", "g", "h", "i", "j", "k", "l", "m", "n", "o",
      "p", "q", "r", "s", "t", "u", "v", "w", "x", "y", "z" }
UpperOf ==
    [ A |-> "a", D |-> "d", E |-> "e", F |-> "f", H |-> "h", L |-> "l", O |-> "o",
      P |-> "p", T |-> "t", U |-> "u" ]
IsAlpha(ch) == ch \in LowerLetters \cup DOMAIN UpperOf \cup {"uff41"}
Lower(ch) == IF ch \in DOMAIN UpperOf THEN UpperOf[ch] ELSE ch

\* _punct_ratio(text) >= _PUNCT_RATIO_THRESHOLD: the division of the two
\* counts is exact at 4/5, so the comparison is one of integers
PunctRatioAtLeast(text) ==
    LET no_ws == SelectSeq(text, LAMBDA ch : ch \notin UnicodeSpace)
        non_letter == Len(SelectSeq(no_ws, LAMBDA ch : ~IsAlpha(ch)))
    IN  /\ no_ws # << >>
        /\ non_letter * PunctRatioDen >= PunctRatioNum * Len(no_ws)

\* the alternatives of _LEAKAGE_PATTERNS, an element a letter, "\\s*" or "\\s+"
LeakagePatterns ==
    { <<"d", "i", "p", "l", "o", "m", "a", "t", "i", "c", "\\s*", ":">>,
      <<"f", "u", "l", "l", "\\s*", ":">>,
      <<"o", "u", "t", "p", "u", "t", "\\s*", ":">>,
      <<"h", "e", "r", "e", "\\s+", "i", "s", "\\s+", "t", "h", "e", "\\s+",
        "e", "x", "p", "a", "n", "d", "e", "d">> }

\* the first position at or after i that holds no whitespace
RECURSIVE SkipSpaces(_, _)
SkipSpaces(t, i) ==
    IF i <= Len(t) /\ t[i] \in UnicodeSpace THEN SkipSpaces(t, i + 1) ELSE i

\* the pattern matches the text from position i on
RECURSIVE MatchesAt(_, _, _)
MatchesAt(t, i, pat) ==
    IF pat = << >> THEN TRUE
    ELSE IF Head(pat) = "\\s*" THEN MatchesAt(t, SkipSpaces(t, i), Tail(pat))
    ELSE IF Head(pat) = "\\s+"
         THEN /\ i <= Len(t)
              /\ t[i] \in UnicodeSpace
              /\ MatchesAt(t, SkipSpaces(t, i), Tail(pat))
    ELSE /\ i <= Len(t)
         /\ Lower(t[i]) = Head(pat)
         /\ MatchesAt(t, i + 1, Tail(pat))

\* _LEAKAGE_PATTERNS.search(text)
LeakageSearch(text) ==
    \E pat \in LeakagePatterns : \E i \in 1..Len(text) : MatchesAt(text, i, pat)

\* the gates of filter_quality on the stripped texts of a pair
PassesGates(diplomatic, full) ==
    /\ diplomatic # << >>
    /\ full # << >>
    /\ diplomatic # full
    /\ ~PunctRatioAtLeast(diplomatic)
    /\ ~PunctRatioAtLeast(full)
    /\ ~LeakageSearch(full)

\* the loop of filter_quality over the pairs
RECURSIVE FilterQualityLoop(_, _, _)
FilterQualityLoop(pairs, seen_keys, out) ==
    IF pairs = << >> THEN out
    ELSE LET diplomatic == Strip(Head(pairs).diplomatic)
             full == Strip(Head(pairs).full)
             key == AppearanceKey(diplomatic)
         IN  IF ~PassesGates(diplomatic, full) \/ key \in seen_keys
             THEN FilterQualityLoop(Tail(pairs), seen_keys, out)
             ELSE FilterQualityLoop(Tail(pairs), seen_keys \cup {key},
                      Append(out, [diplomatic |-> diplomatic, full |-> full]))

\* filter_quality
FilterQuality(pairs) == FilterQualityLoop(pairs, {}, << >>)

\* the pairs of the lists to filter: two that pass and look the same, one
\* that passes and looks different, an empty side, two equal sides, a dash,
\* texts of 4/5 and of 3/4 non-letters, leakage markers and a near miss
FilterPairs ==
    { [diplomatic |-> <<"a">>, full |-> <<"x">>],
      [diplomatic |-> <<" ", "uff41">>, full |-> <<"y">>],
      [diplomatic |-> <<"b">>, full |-> <<"x", " ">>],
      [diplomatic |-> <<" ">>, full |-> <<"x">>],
      [diplomatic |-> <<"a">>, full |-> <<"a", " ">>],
      [diplomatic |-> <<"u2013">>, full |-> <<"x">>],
      [diplomatic |-> <<"c">>, full |-> <<"x", "-", "-", " ", "-", "-">>],
      [diplomatic |-> <<"d">>, full |-> <<"x", "-", "-", "-">>],
      [diplomatic |-> <<"e">>, full |-> <<"F", "U", "L", "L", " ", ":", "x">>],
      [diplomatic |-> <<"f">>, full |-> <<"x", " ", "o", "u", "t", "p", "u", "t", ":">>],
      [diplomatic |-> <<"g">>,
       full |-> <<"H", "e", "r", "e", " ", "i", "s", " ", " ", "t", "h", "e", " ",
                  "e", "x", "p", "a", "n", "d", "e", "d">>],
      [diplomatic |-> <<"h">>, full |-> <<"f", "u", "l", "l">>] }

FilterInputs ==
    [ fn : {"filter_quality"}, pairs : SeqsUpTo(FilterPairs, MaxFilter) ]

(* ------------------------ the read-only extractions -------------------- *)

\* what a function of the module returns or raises: error is NoError when it
\* returns value
Returns(value) == [error |-> NoError, value |-> value]
Raises(exc) == [error |-> exc, value |-> << >>]

\* "\n".join(lines)
RECURSIVE JoinLines(_)
JoinLines(lines) ==
    IF lines = << >> THEN << >>
    ELSE IF Len(lines) = 1 THEN lines[1]
    ELSE lines[1] \o <<"\n">> \o JoinLines(Tail(lines))

\* raw.strip() of every block of the document
StrippedBlocks(doc, block_tags) ==
    LET bl == ExtractBlocks(doc, block_tags)
    IN  [k \in 1..Len(bl) |-> Strip(bl[k].raw)]

\* get_block_ranges: the parser does not raise XMLSyntaxError for a source
\* without an element but returns None, and root.iter() raises; a range is
\* named by the element whose serialization it spans
GetBlockRanges(xml_source, block_tags) ==
    IF xml_source = NotXmlDoc THEN Raises(NoRootError)
    ELSE LET bl == ExtractBlocks(xml_source, block_tags)
         IN  Returns([k \in 1..Len(bl) |-> bl[k].el])

\* for (dip, full) in zip(inp_blocks, out_blocks): the pairs that changed
ZipChanged(inp_blocks, out_blocks) ==
    LET n == Min(Len(inp_blocks), Len(out_blocks))
        idx == SelectSeq([k \in 1..n |-> k],
                         LAMBDA k : /\ inp_blocks[k] # out_blocks[k]
                                    /\ inp_blocks[k] # << >>
                                    /\ out_blocks[k] # << >>)
    IN  [j \in 1..Len(idx) |->
            [diplomatic |-> inp_blocks[idx[j]], full |-> out_blocks[idx[j]]]]

\* extract_expansion_pairs: get_blocks of the input, then of the output
ExtractExpansionPairs(xml_input, xml_output, block_tags) ==
    IF xml_input = NotXmlDoc \/ xml_output = NotXmlDoc THEN Raises(NoRootError)
    ELSE Returns(ZipChanged(StrippedBlocks(xml_input, block_tags),
                            StrippedBlocks(xml_output, block_tags)))

\* extract_text_lines
ExtractTextLines(xml_source, block_tags) ==
    IF xml_source = NotXmlDoc THEN Raises(NoRootError)
    ELSE Returns(JoinLines(StrippedBlocks(xml_source, block_tags)))

\* the documents handed to the extractions: a source that is not XML, flat
\* documents, a nested one, and what a model made of them
ExtractDocs ==
    LET valid == {FlatDoc(n) : n \in 0..MaxBlocks} \cup {NestedDoc}
    IN  {NotXmlDoc} \cup valid \cup {WholeDocumentReply(d) : d \in valid}

ExtractInputs ==
    [ fn : {"get_block_ranges", "extract_expansion_pairs", "extract_text_lines"},
      xml_input : ExtractDocs,
      xml_output : ExtractDocs ]

(* ------------------------ one block's new text -------------------------- *)

\* text starts with prefix
StartsWith(t, prefix) ==
    Len(t) >= Len(prefix) /\ SubSeq(t, 1, Len(prefix)) = prefix

\* out.replace(d, f), d not empty: the occurrences from left to right, none
\* overlapping another
RECURSIVE Replace(_, _, _)
Replace(t, d, f) ==
    IF Len(t) < Len(d) THEN t
    ELSE IF StartsWith(t, d) THEN f \o Replace(SubSeq(t, Len(d) + 1, Len(t)), d, f)
    ELSE <<Head(t)>> \o Replace(Tail(t), d, f)

\* re.sub(re.escape(d) + "(?!" + re.escape(suffix) + ")", f, out)
RECURSIVE ReplaceUnlessFollowed(_, _, _, _)
ReplaceUnlessFollowed(t, d, suffix, f) ==
    IF Len(t) < Len(d) THEN t
    ELSE IF StartsWith(t, d) /\ ~StartsWith(SubSeq(t, Len(d) + 1, Len(t)), suffix)
         THEN f \o ReplaceUnlessFollowed(SubSeq(t, Len(d) + 1, Len(t)), d, suffix, f)
    ELSE <<Head(t)>> \o ReplaceUnlessFollowed(Tail(t), d, suffix, f)

\* sorted(pairs, key=lambda p: len(p[0]), reverse=True): a stable sort
RECURSIVE SortedLongestFirst(_)
SortedLongestFirst(ps) ==
    IF ps = << >> THEN << >>
    ELSE LET p == ps[Len(ps)]
             acc == SortedLongestFirst(SubSeq(ps, 1, Len(ps) - 1))
             pos == Cardinality({i \in 1..Len(acc) : Len(acc[i][1]) >= Len(p[1])})
         IN  SubSeq(acc, 1, pos) \o <<p>> \o SubSeq(acc, pos + 1, Len(acc))

\* the loop of run_local_rules over the sorted pairs
RECURSIVE ApplyPairs(_, _)
ApplyPairs(out, pairs) ==
    IF pairs = << >> THEN out
    ELSE LET d == Head(pairs)[1]
             f == Head(pairs)[2]
         IN  IF d = << >> \/ f = << >> THEN ApplyPairs(out, Tail(pairs))
             ELSE IF Len(f) > Len(d) /\ StartsWith(f, d)
                  THEN ApplyPairs(
                           ReplaceUnlessFollowed(out, d, SubSeq(f, Len(d) + 1, Len(f)), f),
                           Tail(pairs))
             ELSE ApplyPairs(Replace(out, d, f), Tail(pairs))

\* run_local_rules(text, examples=examples) without sorted_pairs
RunLocalRules(text, examples) ==
    IF IsBlank(text) \/ examples = << >> THEN text
    ELSE ApplyPairs(NFC(text),
                    SortedLongestFirst([k \in 1..Len(examples) |->
                        <<NFC(examples[k].diplomatic), examples[k].full>>]))

\* run_local: Ollama first, the rules on its answer, or on the text when
\* Ollama cannot be reached
RunLocal(text, examples, reached) ==
    [calls |-> {"run_ollama"},
     error |-> NoError,
     value |-> RunLocalRules(IF reached THEN Expand(text) ELSE text, examples)]

\* run_gemini as _expand_text_block sees it: an answer or an exception
RunGeminiCall(text, reached) ==
    [calls |-> {"run_gemini"},
     error |-> IF reached THEN NoError ELSE BackendError,
     value |-> IF reached THEN Expand(text) ELSE << >>]

\* _expand_text_block: backend == "local" goes to run_local, every other
\* backend to run_gemini
ExpandTextBlock(text, examples, backend, reached) ==
    IF IsBlank(text) THEN [calls |-> {}, error |-> NoError, value |-> text]
    ELSE IF backend = "local" THEN RunLocal(text, examples, reached)
    ELSE RunGeminiCall(text, reached)

\* the texts of a block: y^e, y^e and more, a blank, ab, gra beside gratia,
\* a with a combining tilde
BlockTexts ==
    { <<"y", "^", "e">>,
      <<"y", "^", "e", " ", "s", " ", "y", "^", "e">>,
      <<" ">>,
      <<"a", "b">>,
      <<"g", "r", "a", " ", "g", "r", "a", "t", "i", "a">>,
      <<"a", "u0303">> }

\* the example lists: none, y^e -> the, a short form before a longer one,
\* a form that begins its own expansion, a composed form and an empty one
RuleExamples ==
    { << >>,
      <<[diplomatic |-> <<"y", "^", "e">>, full |-> <<"t", "h", "e">>]>>,
      <<[diplomatic |-> <<"a">>, full |-> <<"x">>],
        [diplomatic |-> <<"a", "b">>, full |-> <<"y">>]>>,
      <<[diplomatic |-> <<"g", "r", "a">>, full |-> <<"g", "r", "a", "t", "i", "a">>]>>,
      <<[diplomatic |-> <<"u00e3">>, full |-> <<"a", "n">>],
        [diplomatic |-> << >>, full |-> <<"z">>]>> }

BlockInputs ==
    [ fn : {"_expand_text_block"},
      text : BlockTexts,
      examples : RuleExamples,
      backend : {"gemini", "local", "rules"} ]

(* ------------------------------ run_gemini ------------------------------ *)

\* _429_EXTRA_RETRIES, _429_BACKOFF_SEC
EXTRA_RETRIES_429 == 2
BACKOFF_SEC_429 == 8

\* what one do_call() does: it returns the text, or raises an APIError of
\* code 429 or of another code, the TimeoutError of the thread timeout, or
\* another exception
AttemptOutcomes == {"ok", "api429", "api500", "timeout", "runtime"}
IsApiError(o) == o \in {"api429", "api500"}
ApiErrorCode(o) == IF o = "api429" THEN 429 ELSE 500

\* faulty variant of ShouldRetry (C40 must tell them apart): the code of the
\* API error is not looked at
ShouldRetryAnyCode(o, attempt) ==
    IsApiError(o) /\ attempt < EXTRA_RETRIES_429

\* isinstance(e, genai_errors.APIError) and code == 429 and
\* attempt < _429_EXTRA_RETRIES
ShouldRetry(o, attempt) ==
    IsApiError(o) /\ ApiErrorCode(o) = 429 /\ attempt < EXTRA_RETRIES_429

\* the calls of run_gemini: whether an API key is to be had, and what each
\* do_call() of the loop would do
GeminiInputs ==
    [ fn : {"run_gemini"},
      has_key : BOOLEAN,
      outcomes : [1..(1 + EXTRA_RETRIES_429) -> AttemptOutcomes] ]

\* run_gemini has been entered: attempt is the loop variable, made the number
\* of do_call() made, slept the seconds of time.sleep
GeminiEntered ==
    [called |-> FALSE, stage |-> "key", attempt |-> 0, made |-> 0, slept |-> 0,
     raised |-> FALSE, outcome |-> "none"]

(* ----------------------- texts that look the same ---------------------- *)

\* the longest text handed to appearance_key before it is rewritten
MaxKeyLen == 2

\* the characters of those texts
KeyChars == {"b", "a", "u0303", "u00e3", "'", "\"", "-", " "}

\* the other ways to write a character that look the same: curly quotes,
\* dash variants, the no-break and the thin space
LookAlikes(ch) ==
    IF ch = "'" THEN {"u2018", "u2019"}
    ELSE IF ch = "\"" THEN {"u201c", "u201d"}
    ELSE IF ch = "-" THEN {"u2010", "u2011", "u2013", "u2014", "u2212"}
    ELSE IF ch = " " THEN {"u00a0", "u2009"}
    ELSE {}

\* t with the characters i..j replaced by the text r
Splice(t, i, j, r) == SubSeq(t, 1, i - 1) \o r \o SubSeq(t, j + 1, Len(t))

\* the texts that differ from t in one place only and look the same: a
\* zero-width character put in, a look-alike character, the other
\* normalization form of a-tilde, more whitespace inside or around
Rewritings(t) ==
    {Splice(t, i + 1, i, <<z>>) : i \in 0..Len(t), z \in {"u200b", "ufeff"}}
    \cup UNION {{Splice(t, i, i, <<v>>) : v \in LookAlikes(t[i])} : i \in 1..Len(t)}
    \cup {Splice(t, i, i, <<"a", "u0303">>) : i \in {k \in 1..Len(t) : t[k] = "u00e3"}}
    \cup {Splice(t, i, i + 1, <<"u00e3">>) :
             i \in {k \in 1..(Len(t) - 1) : t[k] = "a" /\ t[k + 1] = "u0303"}}
    \cup {Splice(t, i, i, <<" ", " ">>) : i \in {k \in 1..Len(t) : t[k] = " "}}
    \cup {<<" ">> \o t, t \o <<" ">>}

KeyInputs ==
    UNION {[fn : {"appearance_key"}, text : {t}, other : Rewritings(t)] :
              t \in SeqsUpTo(KeyChars, MaxKeyLen)}

(* ------------------------------ the window ----------------------------- *)

\* the most runs started
MaxStarts == 2

\* the files the user can have in the input panel
GuiInputs == {"a.xml", "b.xml"}

\* f with f[k] = v, k new or not
Put(f, k, v) == [q \in DOMAIN f \cup {k} |-> IF q = k THEN v ELSE f[q]]

\* App.__init__: nothing runs, the queue is empty; output is the run whose
\* result the output panel shows, event the run whose cancel event is
\* _current_cancel_event, runs the worker threads by run id, timers the
\* root.after callbacks not yet run by what they call, started the runs
\* started so far, learn the learn threads by run id, dialogs the kinds of
\* error shown to the user
NoGui ==
    [ expand_running |-> FALSE, expand_run_id |-> 0, cancel_enabled |-> FALSE,
      hang_check |-> FALSE, queue |-> << >>, restart |-> FALSE,
      whole_document |-> FALSE, auto_learn |-> TRUE, passes |-> 1, output |-> 0,
      last_xml |-> "", event |-> 0, runs |-> << >>,
      timers |-> [next |-> 0, restart |-> 0], started |-> 0,
      learn |-> << >>, dialogs |-> {} ]

\* a worker thread that has left expand_xml: what it hands to on_done is left
Finished(outcome) ==
    [whole_doc |-> TRUE, passes |-> 0, cancel |-> FALSE, state |-> "finished",
     outcome |-> outcome]

\* a worker thread that has ended and whose on_done has run
Ended == [whole_doc |-> TRUE, passes |-> 0, cancel |-> FALSE, state |-> "done",
          outcome |-> "none"]

\* self._current_cancel_event.set(): the event is read by its worker only
CancelCurrent(g) ==
    IF g.event \in DOMAIN g.runs /\ g.runs[g.event].state \in {"poll", "call"}
    THEN [g EXCEPT !.runs[g.event].cancel = TRUE]
    ELSE g

\* _stop_hang_check
StopHangCheck(g) == [g EXCEPT !.hang_check = FALSE, !.expand_running = FALSE]

\* _run_expand_internal(app, xml, ...): go says whether load_examples
\* returned and the user went on; the worker thread is started with the run
\* id and its own cancel event
RunExpandInternal(g, xml, go) ==
    IF ~go THEN g
    ELSE LET run_id == g.expand_run_id + 1
         IN  [g EXCEPT !.last_xml = xml,
                       !.expand_running = TRUE,
                       !.expand_run_id = run_id,
                       !.event = run_id,
                       !.cancel_enabled = TRUE,
                       !.hang_check = TRUE,
                       !.started = @ + 1,
                       !.runs = Put(@, run_id,
                                    [whole_doc |-> g.whole_document,
                                     passes |-> g.passes, cancel |-> FALSE,
                                     state |-> "poll", outcome |-> "none"])]

\* the queue without its first job of the path
RECURSIVE WithoutFirst(_, _)
WithoutFirst(q, path) ==
    IF q = << >> THEN << >>
    ELSE IF Head(q) = path THEN Tail(q)
    ELSE <<Head(q)>> \o WithoutFirst(Tail(q), path)

\* a job of the path waits in the queue
InQueue(g, path) == \E i \in 1..Len(g.queue) : g.queue[i] = path

\* App._on_expand with the input xml in the input panel
OnExpandHandler(g, xml, go) ==
    IF g.expand_running
    THEN IF InQueue(g, xml)
         THEN [g EXCEPT !.queue = WithoutFirst(@, xml)]
         ELSE [g EXCEPT !.queue = Append(@, xml)]
    ELSE RunExpandInternal(g, xml, go)

\* App._on_cancel_expand
OnCancelExpandHandler(g) ==
    IF ~g.expand_running THEN g
    ELSE [StopHangCheck(CancelCurrent(g)) EXCEPT !.expand_run_id = @ + 1,
                                                 !.cancel_enabled = FALSE]

\* App._on_whole_doc_change, the variable being set to whole
OnWholeDocChangeHandler(g, whole) ==
    LET h == [g EXCEPT !.whole_document = whole]
    IN  IF ~h.expand_running THEN h
        ELSE IF ~whole THEN [CancelCurrent(h) EXCEPT !.restart = TRUE]
        ELSE h

\* App._process_next_in_queue
ProcessNextInQueue(g, go) ==
    IF g.queue = << >> THEN g
    ELSE RunExpandInternal([g EXCEPT !.queue = Tail(@)], Head(g.queue), go)

\* on_done of the worker of run_id, run by the main loop
OnDoneHandler(g, run_id) ==
    LET h == [StopHangCheck(g) EXCEPT !.cancel_enabled = FALSE,
                                      !.runs[run_id] = Ended]
        outcome == g.runs[run_id].outcome
    IN  IF g.expand_run_id # run_id THEN h
        ELSE IF outcome = "cancelled"
             THEN IF g.restart
                  THEN [h EXCEPT !.restart = FALSE, !.timers.restart = @ + 1]
                  ELSE [h EXCEPT !.timers.next = @ + 1]
        ELSE IF outcome = "error"
             THEN [h EXCEPT !.dialogs = @ \cup {"error"}, !.timers.next = @ + 1]
        ELSE [h EXCEPT !.output = run_id,
                       !.learn = IF g.auto_learn THEN Put(@, run_id, "running") ELSE @,
                       !.timers.next = @ + 1]

\* what the learn thread meets: pairs staged, no pair to stage, or an
\* exception of the extraction, of the quality filter or of the persistence
LearnResults == {"staged", "nothing", "extraction", "filter", "persistence"}

\* faulty variant of Learn (C34 must tell them apart): an exception of the
\* learn thread is shown to the user
LearnReporting(g, run_id, result) ==
    IF result \in {"staged", "nothing"} THEN [g EXCEPT !.learn[run_id] = "ended"]
    ELSE [g EXCEPT !.learn[run_id] = "failed", !.dialogs = @ \cup {"learning"}]

\* learn() of _schedule_auto_learn: try: ... except Exception: pass
Learn(g, run_id, result) ==
    IF result \in {"staged", "nothing"} THEN [g EXCEPT !.learn[run_id] = "ended"]
    ELSE [g EXCEPT !.learn[run_id] = "failed"]

\* the root.after callback of the kind runs
TimerHandler(g, kind, go) ==
    LET h == [g EXCEPT !.timers[kind] = @ - 1]
    IN  IF kind = "restart" THEN RunExpandInternal(h, h.last_xml, go)
        ELSE ProcessNextInQueue(h, go)

(* ---------------------- the lists load_learned returns ------------------ *)

\* the most load_learned calls of one behaviour
MaxLoads == 3

\* the pairs of the learned file
AliasPairs ==
    { [diplomatic |-> <<"a">>, full |-> <<"x">>, pro |-> FALSE],
      [diplomatic |-> <<"b">>, full |-> <<"y">>, pro |-> TRUE] }

\* the learned file of the caller: it exists, it is a JSON list of pairs and
\* it is not written during the calls
AliasInputs == [ fn : {"load_learned"}, file : SeqsUpTo(AliasPairs, 2) ]

\* the lists that exist: heap[i] is the content of the list object i; cache
\* is the object _learned_cache holds for the path (0 for none), held the
\* object the last call returned, returns what each call returned when it
\* returned
AliasEntered == [called |-> FALSE, heap |-> << >>, cache |-> 0, held |-> 0,
                 returns |-> << >>]

\* load_learned(p): the heap, the cache and the object returned
LoadLearnedObject(st, file) ==
    IF st.cache # 0
    THEN [st EXCEPT !.called = TRUE,
                    !.heap = Append(@, st.heap[st.cache]),
                    !.held = Len(st.heap) + 1,
                    !.returns = Append(@, st.heap[st.cache])]
    ELSE LET pairs == LoadLearned(file)
         IN  [st EXCEPT !.called = TRUE,
                        !.heap = Append(@, pairs),
                        !.cache = Len(st.heap) + 1,
                        !.held = Len(st.heap) + 1,
                        !.returns = Append(@, pairs)]

\* what the caller can do to the list it holds
Mutations(list, file) ==
    (IF list = << >> THEN {} ELSE {SubSeq(list, 1, Len(list) - 1), << >>})
    \cup (IF Len(list) <= Len(file)
          THEN {Append(list, [diplomatic |-> <<"c">>, full |-> <<"z">>, pro |-> FALSE])}
          ELSE {})

(* ------------------------------ the cache ------------------------------ *)

\* _set_cache clears a cache that holds CacheLimit paths before it inserts
CacheLimit == 8
\* the resolved paths of the model: examples.json of the project, the
\* learned_examples.json beside it, and the examples files of other projects
\* in the same directory; the personal learned file lies in the config dir
NPaths == CacheLimit + 2
Paths == 1..NPaths
ProjectPath == 1
LearnedPath == 2
PersonalPath == 0
ExamplePaths == Paths \ {LearnedPath}
\* the latest tick of the file system's clock in a run: a later write of the
\* program falls into the same tick
MaxMtime == 1

\* get_learned_path: learned_examples.json in the directory of the path
GetLearnedPath(p) == LearnedPath

\* what the examples file of another project holds; it is not written
OtherFile == << [diplomatic |-> <<"u2013">>, full |-> <<"x">>, pro |-> FALSE] >>

\* a cache is a function from the paths it holds to (mtime, data)
EmptyCache == << >>

\* faulty variant of CacheHit (C22 must tell them apart): the modification
\* time is not compared
CacheHitAnyMtime(cache, p, mt) == p \in DOMAIN cache

\* _get_cached returns the data: the key is in the cache with this mtime
CacheHit(cache, p, mt) == p \in DOMAIN cache /\ cache[p].mtime = mt

\* _set_cache
SetCache(cache, p, mt, data) ==
    LET kept == IF Cardinality(DOMAIN cache) >= CacheLimit THEN {} ELSE DOMAIN cache
    IN  [q \in kept \cup {p} |->
            IF q = p THEN [mtime |-> mt, data |-> data] ELSE cache[q]]

\* cache.pop(key, None)
CachePop(cache, p) == [q \in DOMAIN cache \ {p} |-> cache[q]]

\* [{"diplomatic": e["diplomatic"], "full": e["full"]} for e in examples]
TwoFields(examples) ==
    [k \in 1..Len(examples) |->
        [diplomatic |-> examples[k].diplomatic, full |-> examples[k].full,
         pro |-> FALSE]]

\* the lists handed to save_examples: none, a pair marked pro, two pairs that
\* look the same
SaveArgs ==
    { << >>,
      << [diplomatic |-> <<"a">>, full |-> <<"x">>, pro |-> TRUE] >>,
      << [diplomatic |-> <<" ", "a">>, full |-> <<"y", " ">>, pro |-> FALSE],
         [diplomatic |-> <<"uff41">>, full |-> <<"x">>, pro |-> FALSE] >> }

\* the thread that runs load_examples is not in a call
Idle == [pc |-> "idle", path |-> 0, include_learned |-> FALSE,
         include_personal |-> FALSE, hit |-> FALSE, stale |-> FALSE,
         raised |-> FALSE, layer |-> << >>, result |-> << >>]

(* ------------------------------ callbacks ------------------------------ *)

\* the block count above which the parallel loop throttles the partial results
ThrottleAbove == 8

\* the parallel loop's condition for calling partial_result_callback after the
\* block at the (0-based) cursor has been applied
EmitsPartial(nta, n) == nta = n - 1 \/ n <= ThrottleAbove \/ nta % 2 = 1

\* a progress message: the pass it was delivered in, the numbers of its
\* "Pass K/N: " prefix (empty when it has none), and the rest of its text
NoMessage == [pass |-> 0, prefix |-> << >>, body |-> ""]

\* msg = f"Pass {pass_num + 1}/{passes}: {msg}" if passes > 1
PassPrefix(k, n) == IF n > 1 THEN <<k, n>> ELSE << >>

\* expand_xml's message at the start of pass k of n
PassStartMessage(k, n, whole) ==
    [pass |-> k, prefix |-> PassPrefix(k, n),
     body |-> IF whole THEN "Expanding whole document..." ELSE "Expanding..."]

\* _expand_once's message for a block: progress_callback(i + 1, total, "Expanding...")
BlockMessage(k) == [pass |-> k, prefix |-> << >>, body |-> "Expanding..."]

(* -------------------------------- state -------------------------------- *)

VARIABLES
    cfg,            \* the arguments of expand_xml
    pc,             \* where the calling thread is
    pass_num,       \* expand_xml: the loop variable
    current,        \* expand_xml: the document handed from pass to pass
    pass_in,        \* _expand_once: the document as parsed at the pass's start
    root,           \* _expand_once: the tree being modified
    blocks,         \* _expand_once: the block list (el, raw)
    has_session,    \* client is not None and uploaded_file is not None
    open_sessions,  \* sessions prepared and not yet closed
    max_conc,       \* max_concurrent after the defaults and the session rule
    seq_i,          \* the sequential loop's block (1-based)
    queue,          \* the executor's work queue: submitted, not yet started
    running,        \* transform calls in flight
    fut,            \* per block: the state of its future
    yielded,        \* futures as_completed has handed out
    results,        \* the results buffer
    next_to_apply,  \* the apply cursor (0-based, as in the code)
    cur_i,          \* the block of the future just collected (the code's i)
    cancel,         \* what cancel_check() answers now
    cancel_seen,    \* a poll of cancel_check has answered True
    error,          \* the exception propagating (NoError when none)
    failed_block,   \* the block whose failure was observed (0 when none)
    progress,       \* the ordinals passed to progress_callback in this pass
    applied,        \* the blocks applied to the tree in this pass, in order
    started,        \* the blocks whose transform call has started in this pass
    call_count,     \* per block: the calls of expand_one made in this pass
    last_partial,   \* the document of the latest partial_result_callback call
    partial_at,     \* the blocks whose apply was followed by that callback
    last_msg,       \* the latest progress_callback message and its pass
    project_file,   \* examples.json: the pairs it holds
    learned_file,   \* learned_examples.json: the pairs it holds
    personal_file,  \* the personal learned file: the pairs it holds
    loaded,         \* what the latest load_examples call returned
    new_items,      \* add_learned_pairs: the items it is about to write
    last_call,      \* add_learned_pairs: the arguments of the call under way
    mtime,          \* per path of a file that exists: its st_mtime
    malformed,      \* the paths of the files whose text is not JSON
    examples_cache, \* _examples_cache
    learned_cache,  \* _learned_cache
    ld,             \* load_examples in another thread: where it is, its locals
    pure_in,        \* the function called on its own and its arguments
    pure_out,       \* what that call returned
    gui             \* the window: its fields, its timers, its worker threads

vars == <<cfg, pc, pass_num, current, pass_in, root, blocks, has_session,
          open_sessions, max_conc, seq_i, queue, running, fut, yielded, results,
          next_to_apply, cur_i, cancel, cancel_seen, error, failed_block, progress,
          applied, started, call_count, last_partial, partial_at, last_msg,
          project_file, learned_file, personal_file, loaded, new_items,
          last_call, mtime, malformed, examples_cache, learned_cache, ld,
            pure_in, pure_out, gui>>

\* the example files and what was read from and written to them
ExVars == <<project_file, learned_file, personal_file, loaded, new_items,
            last_call, mtime, malformed, examples_cache, learned_cache, ld,
            pure_in, pure_out, gui>>

\* no example file exists and nothing has been loaded or learned
NoExampleFiles ==
    /\ project_file = << >>
    /\ learned_file = << >>
    /\ personal_file = << >>
    /\ loaded = NotLoaded
    /\ new_items = << >>
    /\ last_call = NoCall
    /\ mtime = << >>
    /\ malformed = {}
    /\ examples_cache = EmptyCache
    /\ learned_cache = EmptyCache
    /\ ld = Idle
    /\ gui = NoGui
    /\ pure_in = NoArgs
    /\ pure_out = NoReturn

\* the function called on its own
PureVars == <<pure_in, pure_out>>

\* the pairs json.load and _parse_pairs find in the file of the path
FileData(p) ==
    IF p = ProjectPath THEN project_file
    ELSE IF p = LearnedPath THEN learned_file
    ELSE OtherFile

\* the file of the path has been written by the program: it exists, its text
\* is JSON, its st_mtime is the current tick
Written(p) ==
    [q \in DOMAIN mtime \cup {p} |->
        IF q # p THEN mtime[q]
        ELSE IF p \in DOMAIN mtime THEN Min(mtime[p] + 1, MaxMtime) ELSE 0]

\* faulty variant of LoadProject (C25 must tell them apart): a file that is not
\* JSON is taken for an empty list
LoadProjectSwallowing(p) ==
    IF p \notin DOMAIN mtime
    THEN [raised |-> FALSE, hit |-> FALSE, layer |-> << >>, cache |-> examples_cache]
    ELSE IF CacheHit(examples_cache, p, mtime[p])
    THEN [raised |-> FALSE, hit |-> TRUE, layer |-> examples_cache[p].data,
          cache |-> examples_cache]
    ELSE [raised |-> FALSE, hit |-> FALSE, layer |-> FileData(p),
          cache |-> SetCache(examples_cache, p, mtime[p], FileData(p))]

\* load_examples, the project layer (lines 157-170): whether it raises, the
\* pairs handed to add_layer, and _examples_cache afterwards
LoadProject(p) ==
    IF p \notin DOMAIN mtime
    THEN [raised |-> FALSE, hit |-> FALSE, layer |-> << >>, cache |-> examples_cache]
    ELSE IF CacheHit(examples_cache, p, mtime[p])
    THEN [raised |-> FALSE, hit |-> TRUE, layer |-> examples_cache[p].data,
          cache |-> examples_cache]
    ELSE IF p \in malformed
    THEN [raised |-> TRUE, hit |-> FALSE, layer |-> << >>, cache |-> examples_cache]
    ELSE [raised |-> FALSE, hit |-> FALSE, layer |-> FileData(p),
          cache |-> SetCache(examples_cache, p, mtime[p], FileData(p))]

\* load_learned(p): the pairs returned and _learned_cache afterwards
LoadLearnedCall(p) ==
    IF p \notin DOMAIN mtime THEN [pairs |-> << >>, cache |-> learned_cache]
    ELSE IF CacheHit(learned_cache, p, mtime[p])
    THEN [pairs |-> learned_cache[p].data, cache |-> learned_cache]
    ELSE IF p \in malformed THEN [pairs |-> << >>, cache |-> learned_cache]
    ELSE [pairs |-> LoadLearned(FileData(p)),
          cache |-> SetCache(learned_cache, p, mtime[p], LoadLearned(FileData(p)))]

\* load_personal_learned()
LoadPersonalLearned ==
    IF PersonalPath \in malformed THEN << >> ELSE TwoFields(personal_file)

total == Len(blocks)
passes == ClampPasses(cfg.passes)

Init ==
    /\ cfg \in Configs
    /\ pc = "pass_start"
    /\ pass_num = 0
    /\ current = cfg.doc
    /\ pass_in = cfg.doc
    /\ root = cfg.doc
    /\ blocks = << >>
    /\ has_session = FALSE
    /\ open_sessions = 0
    /\ max_conc = 1
    /\ seq_i = 1
    /\ queue = << >>
    /\ running = {}
    /\ fut = << >>
    /\ yielded = {}
    /\ results = << >>
    /\ next_to_apply = 0
    /\ cur_i = 0
    /\ cancel = FALSE
    /\ cancel_seen = FALSE
    /\ error = NoError
    /\ failed_block = 0
    /\ progress = << >>
    /\ applied = << >>
    /\ started = {}
    /\ call_count = << >>
    /\ last_partial = NoText
    /\ partial_at = << >>
    /\ last_msg = NoMessage
    /\ NoExampleFiles

(* ------------------------------ expand_xml ----------------------------- *)

\* what every step leaves alone unless it says otherwise
PassVars == <<pass_in, root, blocks, max_conc, seq_i, queue, running, fut,
              yielded, results, next_to_apply, cur_i, progress, applied, started,
              call_count, partial_at>>

\* faulty variant of PassStart (C15 must tell them apart): the pass begins
\* without a poll of cancel_check
PassStartNoPoll ==
    /\ pc = "pass_start"
    /\ pass_num < passes
    /\ last_msg' = PassStartMessage(pass_num + 1, passes, cfg.whole_document)
    /\ pc' = "once"
    /\ UNCHANGED <<cfg, pass_num, current, has_session, open_sessions, cancel,
                   cancel_seen, error, failed_block, PassVars>>
    /\ UNCHANGED <<last_partial, ExVars>>

\* for pass_num in range(passes): the cancel poll and the pass-start message
\* (progress_callback(1, 1, msg))
PassStart ==
    /\ pc = "pass_start"
    /\ pass_num < passes
    /\ IF cancel
       THEN /\ cancel_seen' = TRUE
            /\ error' = Cancelled
            /\ pc' = "done"
            /\ UNCHANGED last_msg
       ELSE /\ last_msg' = PassStartMessage(pass_num + 1, passes, cfg.whole_document)
            /\ pc' = "once"
            /\ UNCHANGED <<cancel_seen, error>>
    /\ UNCHANGED <<cfg, pass_num, current, has_session, open_sessions, cancel,
                   failed_block, PassVars>>
    /\ UNCHANGED <<last_partial, ExVars>>

\* return current
Return ==
    /\ pc = "pass_start"
    /\ pass_num >= passes
    /\ pc' = "done"
    /\ UNCHANGED <<cfg, pass_num, current, has_session, open_sessions, cancel,
                   cancel_seen, error, failed_block, PassVars>>
    /\ UNCHANGED <<last_partial, last_msg, ExVars>>

(* ------------------- _expand_once: whole-document branch ---------------- *)

\* prepare_file_session (when wanted), then the call of _expand_whole_document
WholeDocBegin ==
    /\ pc = "once"
    /\ WholeDocBranch(cfg)
    /\ \E prepared \in BOOLEAN :
         IF WholeDocWantsSession(cfg, pass_num) /\ ~prepared
         THEN /\ error' = SessionError
              /\ pc' = "done"
              /\ UNCHANGED <<has_session, open_sessions, running>>
         ELSE /\ has_session' = WholeDocWantsSession(cfg, pass_num)
              /\ open_sessions' =
                    open_sessions + (IF WholeDocWantsSession(cfg, pass_num) THEN 1 ELSE 0)
              /\ running' = {0}
              /\ pc' = "whole_call"
              /\ UNCHANGED error
    /\ UNCHANGED <<cfg, pass_num, current, cancel, cancel_seen, failed_block,
                   pass_in, root, blocks, max_conc, seq_i, queue, fut, yielded,
                   results, next_to_apply, cur_i, progress, applied, started>>
    /\ UNCHANGED <<call_count, last_partial, partial_at, last_msg>>
    /\ UNCHANGED ExVars

\* _expand_whole_document returns or raises; the finally clause closes the
\* session; expand_xml takes the result as the next pass's input
WholeDocEnd ==
    /\ pc = "whole_call"
    /\ running' = {}
    /\ has_session' = FALSE
    /\ open_sessions' = open_sessions - (IF has_session THEN 1 ELSE 0)
    /\ \E ok \in {TRUE} \cup {~cfg.may_fail} :
         IF ok
         THEN /\ current' = WholeDocumentReply(current)
              /\ pass_num' = pass_num + 1
              /\ pc' = "pass_start"
              /\ last_partial' = WholeDocumentReply(current)
              /\ UNCHANGED error
         ELSE /\ error' = BackendError
              /\ pc' = "done"
              /\ UNCHANGED <<current, pass_num, last_partial>>
    /\ UNCHANGED <<cfg, cancel, cancel_seen, failed_block, pass_in, root, blocks,
                   max_conc, seq_i, queue, fut, yielded, results, next_to_apply,
                   cur_i, progress, applied, started>>
    /\ UNCHANGED <<call_count, partial_at, last_msg, ExVars>>

(* ------------------- _expand_once: block-by-block branch ---------------- *)

\* parse, the block list, prepare_file_session, max_concurrent, the prompt
\* prefix: everything before the try statement
BlockBegin ==
    /\ pc = "once"
    /\ ~WholeDocBranch(cfg)
    /\ IF current = NotXmlDoc
       THEN \* root is None: for el in root.iter() raises
            /\ pass_in' = current
            /\ root' = current
            /\ error' = NoRootError
            /\ pc' = "done"
            /\ UNCHANGED <<blocks, max_conc, seq_i, queue, fut, yielded, results,
                           next_to_apply, cur_i, progress, applied, started,
                           call_count, partial_at, has_session, open_sessions>>
       ELSE
            LET bl == ExtractBlocks(current, cfg.block_tags)
                want == BlockWantsSession(cfg, pass_num)
                mc == SessionConcurrent(
                         ConfiguredConcurrent(cfg.max_concurrent, cfg.backend, cfg.dry_run),
                         want)
            IN  /\ pass_in' = current
                /\ root' = current
                /\ blocks' = bl
                /\ max_conc' = mc
                /\ seq_i' = 1
                /\ queue' = << >>
                /\ fut' = [k \in 1..Len(bl) |-> "new"]
                /\ yielded' = {}
                /\ results' = [k \in 1..Len(bl) |-> NoResult]
                /\ next_to_apply' = 0
                /\ cur_i' = 0
                /\ progress' = << >>
                /\ applied' = << >>
                /\ started' = {}
                /\ call_count' = [k \in 1..Len(bl) |-> 0]
                /\ partial_at' = << >>
                /\ \E prepared \in BOOLEAN :
                     IF want /\ ~prepared
                     THEN \* prepare_file_session raised: nothing was acquired
                          /\ error' = SessionError
                          /\ pc' = "done"
                          /\ UNCHANGED <<has_session, open_sessions>>
                     ELSE /\ has_session' = want
                          /\ open_sessions' = open_sessions + (IF want THEN 1 ELSE 0)
                          /\ IF ~cfg.dry_run /\ Len(bl) > 0 /\ ~cfg.examples_ok
                             THEN \* _format_examples_for_prompt raised
                                  /\ error' = ExampleKeyError
                                  /\ pc' = "done"
                             ELSE /\ pc' = IF UseSequential(mc, Len(bl)) THEN "seq" ELSE "submit"
                                  /\ UNCHANGED error
    /\ UNCHANGED <<cfg, pass_num, current, running, cancel, cancel_seen, failed_block>>
    /\ UNCHANGED <<last_partial, last_msg, ExVars>>

\* the frame of a step of the pass that touches none of expand_xml's variables
KeepRun == UNCHANGED <<cfg, pass_num, current, has_session, open_sessions, pass_in,
                       blocks, max_conc, ExVars>>

\* sequential loop, one iteration's head: _check_cancel(), progress_callback,
\* then the call of expand_one begins
SeqCheck ==
    /\ pc = "seq"
    /\ seq_i <= total
    /\ IF cancel
       THEN /\ cancel_seen' = TRUE
            /\ error' = Cancelled
            /\ pc' = "finally"
            /\ UNCHANGED <<progress, running, started, call_count, last_msg>>
       ELSE /\ progress' = Append(progress, seq_i)
            /\ running' = {seq_i}
            /\ started' = started \cup {seq_i}
            /\ call_count' = [call_count EXCEPT ![seq_i] = @ + 1]
            /\ last_msg' = BlockMessage(pass_num + 1)
            /\ pc' = "seq_call"
            /\ UNCHANGED <<cancel_seen, error>>
    /\ KeepRun
    /\ UNCHANGED <<root, seq_i, queue, fut, yielded, results, next_to_apply, cur_i,
                   cancel, failed_block, applied>>
    /\ UNCHANGED <<last_partial, partial_at>>

\* expand_one returns: _set_inner_text(el, expanded), partial_result_callback
SeqReturn ==
    /\ pc = "seq_call"
    /\ running' = {}
    /\ root' = SetInnerText(root, blocks[seq_i].el,
                            ExpandOneResult(cfg.dry_run, blocks[seq_i].raw))
    /\ applied' = Append(applied, seq_i)
    /\ last_partial' = root'
    /\ partial_at' = Append(partial_at, seq_i)
    /\ seq_i' = seq_i + 1
    /\ pc' = "seq"
    /\ KeepRun
    /\ UNCHANGED <<queue, fut, yielded, results, next_to_apply, cur_i, cancel,
                   cancel_seen, error, failed_block, progress, started>>
    /\ UNCHANGED <<call_count, last_msg>>

\* faulty variant of SeqRaise (C11 must tell them apart): the loop calls
\* expand_one a second time for a block whose first call raised
SeqRaiseRetries ==
    /\ pc = "seq_call"
    /\ ~cfg.dry_run
    /\ cfg.may_fail
    /\ IF call_count[seq_i] < 2
       THEN /\ call_count' = [call_count EXCEPT ![seq_i] = @ + 1]
            /\ UNCHANGED <<running, error, failed_block, pc>>
       ELSE /\ running' = {}
            /\ error' = ExpandOneRaises(seq_i, blocks[seq_i].raw, BackendError)
            /\ failed_block' = seq_i
            /\ pc' = "finally"
            /\ UNCHANGED call_count
    /\ KeepRun
    /\ UNCHANGED <<root, seq_i, queue, fut, yielded, results, next_to_apply, cur_i,
                   cancel, cancel_seen, progress, applied, started>>
    /\ UNCHANGED <<last_partial, partial_at, last_msg>>

\* expand_one raises: the exception leaves the loop
SeqRaise ==
    /\ pc = "seq_call"
    /\ ~cfg.dry_run
    /\ cfg.may_fail
    /\ running' = {}
    /\ error' = ExpandOneRaises(seq_i, blocks[seq_i].raw, BackendError)
    /\ failed_block' = seq_i
    /\ pc' = "finally"
    /\ KeepRun
    /\ UNCHANGED <<root, seq_i, queue, fut, yielded, results, next_to_apply, cur_i,
                   cancel, cancel_seen, progress, applied, started>>
    /\ UNCHANGED <<call_count, last_partial, partial_at, last_msg>>

\* the loop is exhausted
SeqEnd ==
    /\ pc = "seq"
    /\ seq_i > total
    /\ pc' = "finally"
    /\ KeepRun
    /\ UNCHANGED <<root, seq_i, queue, running, fut, yielded, results, next_to_apply,
                   cur_i, cancel, cancel_seen, error, failed_block, progress, applied,
                   started>>
    /\ UNCHANGED <<call_count, last_partial, partial_at, last_msg>>

\* executor.submit(expand_one, (i, el, raw)) for the next block of the
\* comprehension; after the last one the as_completed loop begins
Submit ==
    /\ pc = "submit"
    /\ \E i \in 1..total :
         /\ fut[i] = "new"
         /\ \A j \in 1..(i - 1) : fut[j] # "new"
         /\ fut' = [fut EXCEPT ![i] = "pending"]
         /\ queue' = Append(queue, i)
         /\ pc' = IF i = total THEN "collect" ELSE "submit"
    /\ KeepRun
    /\ UNCHANGED <<root, seq_i, running, yielded, results, next_to_apply, cur_i, cancel,
                   cancel_seen, error, failed_block, progress, applied, started>>
    /\ UNCHANGED <<call_count, last_partial, partial_at, last_msg>>

\* a worker thread of the pool takes the oldest work item and calls expand_one
WorkerStart ==
    /\ queue # << >>
    /\ Cardinality(running) < PoolSize(max_conc)
    /\ running' = running \cup {Head(queue)}
    /\ started' = started \cup {Head(queue)}
    /\ call_count' = [call_count EXCEPT ![Head(queue)] = @ + 1]
    /\ fut' = [fut EXCEPT ![Head(queue)] = "running"]
    /\ queue' = Tail(queue)
    /\ KeepRun
    /\ UNCHANGED <<pc, root, seq_i, yielded, results, next_to_apply, cur_i, cancel,
                   cancel_seen, error, failed_block, progress, applied>>
    /\ UNCHANGED <<last_partial, partial_at, last_msg>>

\* faulty variant of WorkerFinish (C17 must tell them apart): expand_one
\* writes its result into the element it was handed
WorkerFinishApplies ==
    /\ pc \in {"submit", "collect", "apply", "shutdown"}
    /\ \E i \in running, ok \in BOOLEAN :
         /\ ok \/ (~cfg.dry_run /\ cfg.may_fail)
         /\ running' = running \ {i}
         /\ fut' = [fut EXCEPT ![i] = IF ok THEN "ok" ELSE "err"]
         /\ root' = IF ok
                    THEN SetInnerText(root, blocks[i].el,
                                      ExpandOneResult(cfg.dry_run, blocks[i].raw))
                    ELSE root
    /\ KeepRun
    /\ UNCHANGED <<pc, seq_i, queue, yielded, results, next_to_apply, cur_i,
                   cancel, cancel_seen, error, failed_block, progress, applied, started>>
    /\ UNCHANGED <<call_count, last_partial, partial_at, last_msg>>

\* expand_one ends in a worker: the future holds its value or its exception
WorkerFinish ==
    /\ pc \in {"submit", "collect", "apply", "shutdown"}
    /\ \E i \in running, ok \in BOOLEAN :
         /\ ok \/ (~cfg.dry_run /\ cfg.may_fail)
         /\ running' = running \ {i}
         /\ fut' = [fut EXCEPT ![i] = IF ok THEN "ok" ELSE "err"]
    /\ KeepRun
    /\ UNCHANGED <<pc, root, seq_i, queue, yielded, results, next_to_apply, cur_i,
                   cancel, cancel_seen, error, failed_block, progress, applied, started>>
    /\ UNCHANGED <<call_count, last_partial, partial_at, last_msg>>

\* for future in as_completed(futures): _check_cancel(); future.result();
\* results[i] = (el, expanded)
Collect ==
    /\ pc = "collect"
    /\ \E i \in 1..total :
         /\ fut[i] \in {"ok", "err"}
         /\ i \notin yielded
         /\ yielded' = yielded \cup {i}
         /\ IF cancel
            THEN /\ cancel_seen' = TRUE
                 /\ error' = Cancelled
                 /\ pc' = "shutdown"
                 /\ UNCHANGED <<results, cur_i, failed_block>>
            ELSE IF fut[i] = "err"
            THEN /\ error' = ExpandOneRaises(i, blocks[i].raw, BackendError)
                 /\ failed_block' = i
                 /\ pc' = "shutdown"
                 /\ UNCHANGED <<results, cur_i, cancel_seen>>
            ELSE /\ results' = [results EXCEPT
                                  ![i] = ExpandOneResult(cfg.dry_run, blocks[i].raw)]
                 /\ cur_i' = i
                 /\ pc' = "apply"
                 /\ UNCHANGED <<error, failed_block, cancel_seen>>
    /\ KeepRun
    /\ UNCHANGED <<root, seq_i, queue, running, fut, next_to_apply, cancel, progress,
                   applied, started>>
    /\ UNCHANGED <<call_count, last_partial, partial_at, last_msg>>

\* every future has been handed out: the loop and the with block end
CollectEnd ==
    /\ pc = "collect"
    /\ yielded = 1..total
    /\ pc' = "shutdown"
    /\ KeepRun
    /\ UNCHANGED <<root, seq_i, queue, running, fut, yielded, results, next_to_apply,
                   cur_i, cancel, cancel_seen, error, failed_block, progress, applied,
                   started>>
    /\ UNCHANGED <<call_count, last_partial, partial_at, last_msg>>

\* while next_to_apply < total and results[next_to_apply] is not None:
\* one iteration (_set_inner_text, progress_callback, partial_result_callback)
ApplyNext ==
    /\ pc = "apply"
    /\ next_to_apply < total
    /\ results[next_to_apply + 1] # NoResult
    /\ LET k == ApplySlot(next_to_apply, cur_i)
       IN  /\ root' = SetInnerText(root, blocks[k].el, results[k])
           /\ progress' = Append(progress, k)
           /\ applied' = Append(applied, k)
           /\ last_msg' = BlockMessage(pass_num + 1)
           /\ IF EmitsPartial(next_to_apply, total)
              THEN /\ last_partial' = root'
                   /\ partial_at' = Append(partial_at, k)
              ELSE UNCHANGED <<last_partial, partial_at>>
    /\ next_to_apply' = next_to_apply + 1
    /\ KeepRun
    /\ UNCHANGED <<pc, seq_i, queue, running, fut, yielded, results, cur_i, cancel,
                   cancel_seen, error, failed_block, started>>
    /\ UNCHANGED call_count

\* the while condition is false: back to as_completed
ApplyDone ==
    /\ pc = "apply"
    /\ ~(next_to_apply < total /\ results[next_to_apply + 1] # NoResult)
    /\ pc' = "collect"
    /\ KeepRun
    /\ UNCHANGED <<root, seq_i, queue, running, fut, yielded, results, next_to_apply,
                   cur_i, cancel, cancel_seen, error, failed_block, progress, applied,
                   started>>
    /\ UNCHANGED <<call_count, last_partial, partial_at, last_msg>>

\* ThreadPoolExecutor.__exit__: shutdown(wait=True) returns once the workers
\* have run every queued work item and ended
Shutdown ==
    /\ pc = "shutdown"
    /\ queue = << >>
    /\ running = {}
    /\ pc' = "finally"
    /\ KeepRun
    /\ UNCHANGED <<root, seq_i, queue, running, fut, yielded, results, next_to_apply,
                   cur_i, cancel, cancel_seen, error, failed_block, progress, applied,
                   started>>
    /\ UNCHANGED <<call_count, last_partial, partial_at, last_msg>>

\* finally: close_file_session; then the exception goes on to the caller of
\* expand_xml, or _expand_once returns _serialize_root(root) to the pass loop,
\* which hands it to partial_result_callback when whole_document is set
Finally ==
    /\ pc = "finally"
    /\ has_session' = FALSE
    /\ open_sessions' = open_sessions - (IF has_session THEN 1 ELSE 0)
    /\ IF error # NoError
       THEN /\ pc' = "done"
            /\ UNCHANGED <<current, pass_num, last_partial>>
       ELSE /\ current' = root
            /\ pass_num' = pass_num + 1
            /\ pc' = "pass_start"
            /\ last_partial' = IF cfg.whole_document THEN root ELSE last_partial
    /\ UNCHANGED <<cfg, pass_in, blocks, max_conc, root, seq_i, queue, running, fut,
                   yielded, results, next_to_apply, cur_i, cancel, cancel_seen, error,
                   failed_block, progress, applied, started>>
    /\ UNCHANGED <<call_count, partial_at, last_msg, ExVars>>

\* the caller's side: from now on cancel_check() answers True
SetCancel ==
    /\ pc # "done"
    /\ ~cancel
    /\ cancel' = TRUE
    /\ UNCHANGED <<cfg, pc, pass_num, current, has_session, open_sessions, cancel_seen,
                   error, failed_block, PassVars>>
    /\ UNCHANGED <<last_partial, last_msg, ExVars>>

Next ==
    \/ PassStart
    \/ Return
    \/ WholeDocBegin
    \/ WholeDocEnd
    \/ BlockBegin
    \/ SeqCheck
    \/ SeqReturn
    \/ SeqRaise
    \/ SeqEnd
    \/ Submit
    \/ WorkerStart
    \/ WorkerFinish
    \/ Collect
    \/ CollectEnd
    \/ ApplyNext
    \/ ApplyDone
    \/ Shutdown
    \/ Finally
    \/ SetCancel

Spec == Init /\ [][Next]_vars

(* --------------------- every small document tree ------------------------ *)

RECURSIVE AncestorsOrSelf(_, _)
AncestorsOrSelf(par, k) == IF k = 0 THEN {} ELSE {k} \cup AncestorsOrSelf(par, par[k])

\* the parent vectors of the trees of n elements listed in document order:
\* element k hangs below element k-1 or below one of its ancestors
ParentVectors(n) ==
    { par \in [1..n -> 0..(n - 1)] :
        /\ par[1] = 0
        /\ \A k \in 2..n : par[k] \in AncestorsOrSelf(par, k - 1) }

\* (text, tail) of an element: nothing; content; whitespace-only text with
\* content in the tail
NodeTexts == { << << >>, << >> >>, << <<"a">>, << >> >>, << <<" ">>, <<"b">> >> }
\* the tag names of the generated trees: one of TEXT_BLOCK_TAGS, one outside
TreeTagNames == {"p", "hi"}

TreesOfSize(n) ==
    { [k \in 1..n |->
          El(k, tg[k], par[k], tx[k][1], IF k = 1 THEN << >> ELSE tx[k][2])] :
        par \in ParentVectors(n), tg \in [1..n -> TreeTagNames], tx \in [1..n -> NodeTexts] }

Trees == UNION {TreesOfSize(n) : n \in 1..MaxNodes}

\* block-by-block runs of the sequential loop over every small tree, with the
\* default tag set and with a caller's tag set
TreeConfigs ==
    [ doc : Trees,
      passes : {1, 2},
      dry_run : BOOLEAN,
      backend : {"local"},
      whole_document : {FALSE},
      input_file : {FALSE},
      examples_path : {FALSE},
      examples_ok : {TRUE},
      block_tags : {{}, {"hi"}},
      max_concurrent : {<<1>>},
      may_fail : {TRUE} ]

InitTree ==
    /\ cfg \in TreeConfigs
    /\ pc = "pass_start"
    /\ pass_num = 0
    /\ current = cfg.doc
    /\ pass_in = cfg.doc
    /\ root = cfg.doc
    /\ blocks = << >>
    /\ has_session = FALSE
    /\ open_sessions = 0
    /\ max_conc = 1
    /\ seq_i = 1
    /\ queue = << >>
    /\ running = {}
    /\ fut = << >>
    /\ yielded = {}
    /\ results = << >>
    /\ next_to_apply = 0
    /\ cur_i = 0
    /\ cancel = FALSE
    /\ cancel_seen = FALSE
    /\ error = NoError
    /\ failed_block = 0
    /\ progress = << >>
    /\ applied = << >>
    /\ started = {}
    /\ call_count = << >>
    /\ last_partial = NoText
    /\ partial_at = << >>
    /\ last_msg = NoMessage
    /\ NoExampleFiles

NextTree ==
    \/ PassStart
    \/ Return
    \/ BlockBegin
    \/ SeqCheck
    \/ SeqReturn
    \/ SeqRaise
    \/ SeqEnd
    \/ Finally

SpecTree == InitTree /\ [][NextTree]_vars

(* ------------------- passes of few and of many blocks ------------------- *)

\* one block-by-block pass over a document below and one above the block
\* count at which the partial results are throttled, in the sequential loop
\* (with a backend that may raise) and in a pool of two workers (with a
\* backend that answers every call)
ThrottleConfigs ==
    { c \in [ doc : {FlatDoc(2), FlatDoc(ThrottleAbove + 1)},
              passes : {1},
              dry_run : {FALSE},
              backend : {"local"},
              whole_document : {FALSE},
              input_file : {FALSE},
              examples_path : {FALSE},
              examples_ok : {TRUE},
              block_tags : {{}},
              max_concurrent : {<<1>>, <<2>>},
              may_fail : BOOLEAN ] :
        c.may_fail <=> c.max_concurrent = <<1>> }

InitThrottle ==
    /\ cfg \in ThrottleConfigs
    /\ pc = "pass_start"
    /\ pass_num = 0
    /\ current = cfg.doc
    /\ pass_in = cfg.doc
    /\ root = cfg.doc
    /\ blocks = << >>
    /\ has_session = FALSE
    /\ open_sessions = 0
    /\ max_conc = 1
    /\ seq_i = 1
    /\ queue = << >>
    /\ running = {}
    /\ fut = << >>
    /\ yielded = {}
    /\ results = << >>
    /\ next_to_apply = 0
    /\ cur_i = 0
    /\ cancel = FALSE
    /\ cancel_seen = FALSE
    /\ error = NoError
    /\ failed_block = 0
    /\ progress = << >>
    /\ applied = << >>
    /\ started = {}
    /\ call_count = << >>
    /\ last_partial = NoText
    /\ partial_at = << >>
    /\ last_msg = NoMessage
    /\ NoExampleFiles

NextThrottle ==
    \/ PassStart
    \/ Return
    \/ BlockBegin
    \/ SeqCheck
    \/ SeqReturn
    \/ SeqRaise
    \/ SeqEnd
    \/ Submit
    \/ WorkerStart
    \/ WorkerFinish
    \/ Collect
    \/ CollectEnd
    \/ ApplyNext
    \/ ApplyDone
    \/ Shutdown
    \/ Finally
    \/ SetCancel

SpecThrottle == InitThrottle /\ [][NextThrottle]_vars

(* ------------------------- every pass count ----------------------------- *)

\* runs over a one-block document with every passes argument from below the
\* lower limit to above the upper one, block by block and whole-document
PassesConfigs ==
    [ doc : {FlatDoc(1)},
      passes : (0 - 1)..(MaxPassClamp + 2),
      dry_run : {FALSE},
      backend : {"gemini", "local"},
      whole_document : BOOLEAN,
      input_file : {FALSE},
      examples_path : {FALSE},
      examples_ok : {TRUE},
      block_tags : {{}},
      max_concurrent : {<<1>>},
      may_fail : {TRUE} ]

InitPasses ==
    /\ cfg \in PassesConfigs
    /\ pc = "pass_start"
    /\ pass_num = 0
    /\ current = cfg.doc
    /\ pass_in = cfg.doc
    /\ root = cfg.doc
    /\ blocks = << >>
    /\ has_session = FALSE
    /\ open_sessions = 0
    /\ max_conc = 1
    /\ seq_i = 1
    /\ queue = << >>
    /\ running = {}
    /\ fut = << >>
    /\ yielded = {}
    /\ results = << >>
    /\ next_to_apply = 0
    /\ cur_i = 0
    /\ cancel = FALSE
    /\ cancel_seen = FALSE
    /\ error = NoError
    /\ failed_block = 0
    /\ progress = << >>
    /\ applied = << >>
    /\ started = {}
    /\ call_count = << >>
    /\ last_partial = NoText
    /\ partial_at = << >>
    /\ last_msg = NoMessage
    /\ NoExampleFiles

NextPasses ==
    \/ PassStart
    \/ Return
    \/ WholeDocBegin
    \/ WholeDocEnd
    \/ BlockBegin
    \/ SeqCheck
    \/ SeqReturn
    \/ SeqRaise
    \/ SeqEnd
    \/ Finally
    \/ SetCancel

SpecPasses == InitPasses /\ [][NextPasses]_vars

(* ------------------------ sources that are not XML --------------------- *)

\* runs of the local backend, block by block, over a source that is not XML
\* and over documents of no block and of some blocks
InputConfigs ==
    [ doc : {NotXmlDoc} \cup {FlatDoc(n) : n \in 0..MaxBlocks},
      passes : 1..MaxPassesArg,
      dry_run : BOOLEAN,
      backend : {"local"},
      whole_document : BOOLEAN,
      input_file : {FALSE},
      examples_path : {FALSE},
      examples_ok : {TRUE},
      block_tags : {{}},
      max_concurrent : {<<1>>},
      may_fail : {TRUE} ]

InitInput ==
    /\ cfg \in InputConfigs
    /\ pc = "pass_start"
    /\ pass_num = 0
    /\ current = cfg.doc
    /\ pass_in = cfg.doc
    /\ root = cfg.doc
    /\ blocks = << >>
    /\ has_session = FALSE
    /\ open_sessions = 0
    /\ max_conc = 1
    /\ seq_i = 1
    /\ queue = << >>
    /\ running = {}
    /\ fut = << >>
    /\ yielded = {}
    /\ results = << >>
    /\ next_to_apply = 0
    /\ cur_i = 0
    /\ cancel = FALSE
    /\ cancel_seen = FALSE
    /\ error = NoError
    /\ failed_block = 0
    /\ progress = << >>
    /\ applied = << >>
    /\ started = {}
    /\ call_count = << >>
    /\ last_partial = NoText
    /\ partial_at = << >>
    /\ last_msg = NoMessage
    /\ NoExampleFiles

NextInput ==
    \/ PassStart
    \/ Return
    \/ BlockBegin
    \/ SeqCheck
    \/ SeqReturn
    \/ SeqRaise
    \/ SeqEnd
    \/ Finally
    \/ SetCancel

SpecInput == InitInput /\ [][NextInput]_vars

(* --------------------------- the example files -------------------------- *)

\* the variables of expand_xml
RunVars == <<cfg, pc, pass_num, current, has_session, open_sessions, cancel,
             cancel_seen, error, failed_block, last_partial, last_msg, PassVars>>

\* no run of expand_xml is under way
NoRun ==
    /\ cfg = [ doc |-> FlatDoc(0), passes |-> 1, dry_run |-> TRUE, backend |-> "local",
               whole_document |-> FALSE, input_file |-> FALSE, examples_path |-> FALSE,
               examples_ok |-> TRUE, block_tags |-> {}, max_concurrent |-> << >>,
               may_fail |-> FALSE ]
    /\ pc = "done"
    /\ pass_num = 0
    /\ current = cfg.doc
    /\ pass_in = cfg.doc
    /\ root = cfg.doc
    /\ blocks = << >>
    /\ has_session = FALSE
    /\ open_sessions = 0
    /\ max_conc = 1
    /\ seq_i = 1
    /\ queue = << >>
    /\ running = {}
    /\ fut = << >>
    /\ yielded = {}
    /\ results = << >>
    /\ next_to_apply = 0
    /\ cur_i = 0
    /\ cancel = FALSE
    /\ cancel_seen = FALSE
    /\ error = NoError
    /\ failed_block = 0
    /\ progress = << >>
    /\ applied = << >>
    /\ started = {}
    /\ call_count = << >>
    /\ last_partial = NoText
    /\ partial_at = << >>
    /\ last_msg = NoMessage

InitExamples == NoRun /\ NoExampleFiles

\* the pairs written to the three files and the files made unreadable
PairsOnFile == Len(project_file) + Len(learned_file) + Len(personal_file)
                   + Cardinality(malformed)

\* save_examples(path, examples + [pair]): one more pair in examples.json
SaveExamples ==
    /\ ~loaded.called
    /\ ProjectPath \notin malformed
    /\ PairsOnFile < MaxPairs
    /\ \E e \in FilePairs({FALSE}) : project_file' = TwoFields(Append(project_file, e))
    /\ mtime' = Written(ProjectPath)
    /\ malformed' = malformed \ {ProjectPath}
    /\ examples_cache' = CachePop(examples_cache, ProjectPath)
    /\ UNCHANGED <<learned_file, personal_file, loaded, new_items, last_call,
                   learned_cache, ld, RunVars, PureVars, gui>>

\* learned_examples.json as load_learned finds it: one more pair object, with
\* or without "pro"
WriteLearnedFile ==
    /\ ~loaded.called
    /\ LearnedPath \notin malformed
    /\ PairsOnFile < MaxPairs
    /\ \E e \in FilePairs(BOOLEAN) : learned_file' = Append(learned_file, e)
    /\ mtime' = Written(LearnedPath)
    /\ malformed' = malformed \ {LearnedPath}
    /\ UNCHANGED <<project_file, personal_file, loaded, new_items, last_call,
                   examples_cache, learned_cache, ld, RunVars, PureVars, gui>>

\* save_personal_learned(items + [pair]): one more pair in the personal file
SavePersonalLearned ==
    /\ ~loaded.called
    /\ PersonalPath \notin malformed
    /\ PairsOnFile < MaxPairs
    /\ \E e \in FilePairs({FALSE}) : personal_file' = TwoFields(Append(personal_file, e))
    /\ malformed' = malformed \ {PersonalPath}
    /\ UNCHANGED <<project_file, learned_file, loaded, new_items, last_call, mtime,
                   examples_cache, learned_cache, ld, RunVars, PureVars, gui>>

\* a file is overwritten with text that is not JSON
CorruptFile ==
    /\ ~loaded.called
    /\ PairsOnFile < MaxPairs
    /\ \E p \in {ProjectPath, LearnedPath, PersonalPath} :
         /\ p \notin malformed
         /\ malformed' = malformed \cup {p}
         /\ project_file' = IF p = ProjectPath THEN << >> ELSE project_file
         /\ learned_file' = IF p = LearnedPath THEN << >> ELSE learned_file
         /\ personal_file' = IF p = PersonalPath THEN << >> ELSE personal_file
         /\ mtime' = IF p = PersonalPath THEN mtime ELSE Written(p)
    /\ UNCHANGED <<loaded, new_items, last_call, examples_cache, learned_cache, ld,
                   RunVars, PureVars, gui>>

\* load_examples(path, include_learned, include_personal_learned)
LoadExamples ==
    /\ \E il \in BOOLEAN, ip \in BOOLEAN :
         LET pr == LoadProject(ProjectPath)
             ll == LoadLearnedCall(GetLearnedPath(ProjectPath))
         IN  IF pr.raised
             THEN /\ loaded' = [called |-> TRUE, include_learned |-> il,
                                include_personal |-> ip, raised |-> TRUE,
                                result |-> << >>]
                  /\ UNCHANGED <<examples_cache, learned_cache>>
             ELSE /\ loaded' = [called |-> TRUE, include_learned |-> il,
                                include_personal |-> ip, raised |-> FALSE,
                                result |-> LoadExamplesResult(pr.layer, ll.pairs,
                                                              LoadPersonalLearned, il, ip)]
                  /\ examples_cache' = pr.cache
                  /\ learned_cache' = IF il THEN ll.cache ELSE learned_cache
    /\ UNCHANGED <<project_file, learned_file, personal_file, new_items, last_call,
                   mtime, malformed, ld, RunVars, PureVars, gui>>

\* the files are written, then load_examples reads them
NextLoad ==
    \/ SaveExamples
    \/ WriteLearnedFile
    \/ SavePersonalLearned
    \/ CorruptFile
    \/ LoadExamples

SpecLoad == InitExamples /\ [][NextLoad]_vars

\* add_learned_pairs(pairs, learned_path, max_learned=..., model=...,
\* local_diplomatic=...) up to the cap: the items to write and the count
AddLearnedPairs ==
    /\ ~last_call.called
    /\ \E pairs \in SeqsUpTo(CandidatePairs, MaxCandidates), model \in ModelNames,
          local \in LocalSets, max_learned \in 0..MaxLearnedArg :
         LET raw == LoadLearnedCall(LearnedPath)
             res == AddLearnedResult(raw.pairs, pairs, model, local, max_learned)
         IN  /\ learned_cache' = raw.cache
             /\ new_items' = res.items
             /\ last_call' = [called |-> TRUE, pairs |-> pairs, model |-> model,
                              local |-> local, max_learned |-> max_learned,
                              added |-> res.added]
    /\ UNCHANGED <<project_file, learned_file, personal_file, loaded, mtime, malformed,
                   examples_cache, ld, RunVars, PureVars, gui>>

\* add_learned_pairs: json.dump(items, f), the cache entry is dropped, return
AddLearnedWrite ==
    /\ last_call.called
    /\ learned_file' = new_items
    /\ new_items' = << >>
    /\ last_call' = NoCall
    /\ mtime' = Written(LearnedPath)
    /\ malformed' = malformed \ {LearnedPath}
    /\ learned_cache' = CachePop(learned_cache, LearnedPath)
    /\ UNCHANGED <<project_file, personal_file, loaded, examples_cache, ld, RunVars, PureVars, gui>>

\* the learned pool under any sequence of add_learned_pairs calls
NextLearn ==
    \/ AddLearnedPairs
    \/ AddLearnedWrite

SpecLearn == InitExamples /\ [][NextLearn]_vars

(* ------------------------ the cache and two threads --------------------- *)

\* the files of the variables other than the example files
StoreRest == <<learned_file, personal_file, loaded, new_items, last_call, RunVars, PureVars, gui>>

\* every examples file exists and is an empty list or OtherFile; there is no
\* learned file and no personal file; nothing is cached
InitStore ==
    /\ NoRun
    /\ project_file = << >>
    /\ learned_file = << >>
    /\ personal_file = << >>
    /\ loaded = NotLoaded
    /\ new_items = << >>
    /\ last_call = NoCall
    /\ mtime = [p \in ExamplePaths |-> 0]
    /\ malformed = {}
    /\ examples_cache = EmptyCache
    /\ learned_cache = EmptyCache
    /\ ld = Idle
    /\ gui = NoGui
    /\ pure_in = NoArgs
    /\ pure_out = NoReturn

\* save_examples(path, examples) in the main thread
SaveExamplesList ==
    /\ \E examples \in SaveArgs : project_file' = TwoFields(examples)
    /\ mtime' = Written(ProjectPath)
    /\ malformed' = malformed \ {ProjectPath}
    /\ examples_cache' = CachePop(examples_cache, ProjectPath)
    /\ UNCHANGED <<learned_cache, ld, StoreRest>>

\* examples.json is written again with the same pairs outside of the program,
\* in a later tick of the clock
TouchFile ==
    /\ mtime[ProjectPath] < MaxMtime
    /\ mtime' = [mtime EXCEPT ![ProjectPath] = @ + 1]
    /\ UNCHANGED <<project_file, malformed, examples_cache, learned_cache, ld, StoreRest>>

\* load_examples(p, include_learned=True) in the other thread, lines 157-167:
\* the cache is asked, the file is read on a miss
LoadExamplesOpen ==
    /\ ld.pc = "idle"
    /\ \E p \in ExamplePaths \cap DOMAIN mtime :
         LET pr == LoadProject(p)
         IN  ld' = [pc |-> IF pr.raised THEN "returned"
                           ELSE IF pr.hit THEN "layers" ELSE "cache",
                    path |-> p, include_learned |-> TRUE, include_personal |-> TRUE,
                    hit |-> pr.hit,
                    stale |-> ~pr.hit /\ p \in DOMAIN examples_cache,
                    raised |-> pr.raised, layer |-> pr.layer, result |-> << >>]
    /\ UNCHANGED <<project_file, mtime, malformed, examples_cache, learned_cache,
                   StoreRest>>

\* line 169: _set_cache(p, project, _examples_cache), which calls p.stat()
LoadExamplesCache ==
    /\ ld.pc = "cache"
    /\ examples_cache' = SetCache(examples_cache, ld.path, mtime[ld.path], ld.layer)
    /\ ld' = [ld EXCEPT !.pc = "layers"]
    /\ UNCHANGED <<project_file, mtime, malformed, learned_cache, StoreRest>>

\* lines 170-179: the three layers are merged
LoadExamplesLayers ==
    /\ ld.pc = "layers"
    /\ LET ll == LoadLearnedCall(GetLearnedPath(ld.path))
       IN  /\ ld' = [ld EXCEPT !.pc = "returned",
                               !.result = LoadExamplesResult(
                                   ld.layer, ll.pairs, LoadPersonalLearned,
                                   ld.include_learned, ld.include_personal)]
           /\ learned_cache' = IF ld.include_learned THEN ll.cache ELSE learned_cache
    /\ UNCHANGED <<project_file, mtime, malformed, examples_cache, StoreRest>>

\* load_examples returns or raises
LoadExamplesReturn ==
    /\ ld.pc = "returned"
    /\ ld' = Idle
    /\ UNCHANGED <<project_file, mtime, malformed, examples_cache, learned_cache,
                   StoreRest>>

\* one thread saves and the files change while another thread loads
NextStore ==
    \/ SaveExamplesList
    \/ TouchFile
    \/ LoadExamplesOpen
    \/ LoadExamplesCache
    \/ LoadExamplesLayers
    \/ LoadExamplesReturn

SpecStore == InitStore /\ [][NextStore]_vars

(* ------------------------- functions on their own ------------------------ *)

\* the example files and the caches
FileVars == <<project_file, learned_file, personal_file, loaded, new_items,
              last_call, mtime, malformed, examples_cache, learned_cache, ld>>

\* nothing runs, no file exists, and the arguments of one call are chosen
InitSelect ==
    /\ NoRun
    /\ project_file = << >>
    /\ learned_file = << >>
    /\ personal_file = << >>
    /\ loaded = NotLoaded
    /\ new_items = << >>
    /\ last_call = NoCall
    /\ mtime = << >>
    /\ malformed = {}
    /\ examples_cache = EmptyCache
    /\ learned_cache = EmptyCache
    /\ ld = Idle
    /\ gui = NoGui
    /\ pure_in \in SelectInputs
    /\ pure_out = NoReturn

\* select_examples_for_prompt(examples, max_examples, strategy)
SelectExamplesForPrompt ==
    /\ pure_in.fn = "select_examples_for_prompt"
    /\ ~pure_out.called
    /\ pure_out' = [called |-> TRUE,
                    result |-> SelectExamples(pure_in.examples, pure_in.max_examples,
                                              pure_in.strategy)]
    /\ UNCHANGED <<pure_in, gui, FileVars, RunVars>>

NextSelect == SelectExamplesForPrompt

SpecSelect == InitSelect /\ [][NextSelect]_vars

InitFilter ==
    /\ NoRun
    /\ project_file = << >>
    /\ learned_file = << >>
    /\ personal_file = << >>
    /\ loaded = NotLoaded
    /\ new_items = << >>
    /\ last_call = NoCall
    /\ mtime = << >>
    /\ malformed = {}
    /\ examples_cache = EmptyCache
    /\ learned_cache = EmptyCache
    /\ ld = Idle
    /\ gui = NoGui
    /\ pure_in \in FilterInputs
    /\ pure_out = NoReturn

\* filter_quality(pairs)
FilterQualityCall ==
    /\ pure_in.fn = "filter_quality"
    /\ ~pure_out.called
    /\ pure_out' = [called |-> TRUE, result |-> FilterQuality(pure_in.pairs)]
    /\ UNCHANGED <<pure_in, gui, FileVars, RunVars>>

NextFilter == FilterQualityCall

SpecFilter == InitFilter /\ [][NextFilter]_vars

InitExtract ==
    /\ NoRun
    /\ project_file = << >>
    /\ learned_file = << >>
    /\ personal_file = << >>
    /\ loaded = NotLoaded
    /\ new_items = << >>
    /\ last_call = NoCall
    /\ mtime = << >>
    /\ malformed = {}
    /\ examples_cache = EmptyCache
    /\ learned_cache = EmptyCache
    /\ ld = Idle
    /\ gui = NoGui
    /\ pure_in \in ExtractInputs
    /\ pure_out = NoReturn

\* get_block_ranges(xml_source)
GetBlockRangesCall ==
    /\ pure_in.fn = "get_block_ranges"
    /\ ~pure_out.called
    /\ pure_out' = [called |-> TRUE, result |-> GetBlockRanges(pure_in.xml_input, {})]
    /\ UNCHANGED <<pure_in, gui, FileVars, RunVars>>

\* extract_expansion_pairs(xml_input, xml_output)
ExtractExpansionPairsCall ==
    /\ pure_in.fn = "extract_expansion_pairs"
    /\ ~pure_out.called
    /\ pure_out' = [called |-> TRUE,
                    result |-> ExtractExpansionPairs(pure_in.xml_input,
                                                     pure_in.xml_output, {})]
    /\ UNCHANGED <<pure_in, gui, FileVars, RunVars>>

\* extract_text_lines(xml_source)
ExtractTextLinesCall ==
    /\ pure_in.fn = "extract_text_lines"
    /\ ~pure_out.called
    /\ pure_out' = [called |-> TRUE, result |-> ExtractTextLines(pure_in.xml_input, {})]
    /\ UNCHANGED <<pure_in, gui, FileVars, RunVars>>

NextExtract ==
    \/ GetBlockRangesCall
    \/ ExtractExpansionPairsCall
    \/ ExtractTextLinesCall

SpecExtract == InitExtract /\ [][NextExtract]_vars

InitBlock ==
    /\ NoRun
    /\ project_file = << >>
    /\ learned_file = << >>
    /\ personal_file = << >>
    /\ loaded = NotLoaded
    /\ new_items = << >>
    /\ last_call = NoCall
    /\ mtime = << >>
    /\ malformed = {}
    /\ examples_cache = EmptyCache
    /\ learned_cache = EmptyCache
    /\ ld = Idle
    /\ gui = NoGui
    /\ pure_in \in BlockInputs
    /\ pure_out = NoReturn

\* _expand_text_block(text, examples, model, api_key, backend=backend): the
\* service it calls answers or cannot be reached
ExpandTextBlockCall ==
    /\ pure_in.fn = "_expand_text_block"
    /\ ~pure_out.called
    /\ \E reached \in BOOLEAN :
         pure_out' = [called |-> TRUE,
                      result |-> ExpandTextBlock(pure_in.text, pure_in.examples,
                                                 pure_in.backend, reached)]
    /\ UNCHANGED <<pure_in, gui, FileVars, RunVars>>

NextBlock == ExpandTextBlockCall

SpecBlock == InitBlock /\ [][NextBlock]_vars

InitGemini ==
    /\ NoRun
    /\ project_file = << >>
    /\ learned_file = << >>
    /\ personal_file = << >>
    /\ loaded = NotLoaded
    /\ new_items = << >>
    /\ last_call = NoCall
    /\ mtime = << >>
    /\ malformed = {}
    /\ examples_cache = EmptyCache
    /\ learned_cache = EmptyCache
    /\ ld = Idle
    /\ gui = NoGui
    /\ pure_in \in GeminiInputs
    /\ pure_out = GeminiEntered

\* key = _get_api_key(api_key): RuntimeError when no key is set
RunGeminiKey ==
    /\ pure_in.fn = "run_gemini"
    /\ pure_out.stage = "key"
    /\ pure_out' =
          IF pure_in.has_key
          THEN [pure_out EXCEPT !.stage = "loop"]
          ELSE [pure_out EXCEPT !.stage = "done", !.called = TRUE, !.raised = TRUE,
                                !.outcome = "runtime"]
    /\ UNCHANGED <<pure_in, gui, FileVars, RunVars>>

\* one iteration of for attempt in range(1 + _429_EXTRA_RETRIES): return
\* do_call(), or sleep and continue, or raise
RunGeminiAttempt ==
    /\ pure_in.fn = "run_gemini"
    /\ pure_out.stage = "loop"
    /\ pure_out.attempt < 1 + EXTRA_RETRIES_429
    /\ LET o == pure_in.outcomes[pure_out.attempt + 1]
       IN  pure_out' =
              IF o = "ok"
              THEN [pure_out EXCEPT !.stage = "done", !.called = TRUE,
                                    !.made = @ + 1, !.outcome = o]
              ELSE IF ShouldRetry(o, pure_out.attempt)
              THEN [pure_out EXCEPT !.attempt = @ + 1, !.made = @ + 1,
                                    !.slept = @ + BACKOFF_SEC_429]
              ELSE [pure_out EXCEPT !.stage = "done", !.called = TRUE,
                                    !.made = @ + 1, !.raised = TRUE, !.outcome = o]
    /\ UNCHANGED <<pure_in, gui, FileVars, RunVars>>

NextGemini ==
    \/ RunGeminiKey
    \/ RunGeminiAttempt

SpecGemini == InitGemini /\ [][NextGemini]_vars

InitKey ==
    /\ NoRun
    /\ project_file = << >>
    /\ learned_file = << >>
    /\ personal_file = << >>
    /\ loaded = NotLoaded
    /\ new_items = << >>
    /\ last_call = NoCall
    /\ mtime = << >>
    /\ malformed = {}
    /\ examples_cache = EmptyCache
    /\ learned_cache = EmptyCache
    /\ ld = Idle
    /\ gui = NoGui
    /\ pure_in \in KeyInputs
    /\ pure_out = NoReturn

\* appearance_key(text) and appearance_key(other)
AppearanceKeyCall ==
    /\ pure_in.fn = "appearance_key"
    /\ ~pure_out.called
    /\ pure_out' = [called |-> TRUE,
                    result |-> <<AppearanceKey(pure_in.text),
                                 AppearanceKey(pure_in.other)>>]
    /\ UNCHANGED <<pure_in, gui, FileVars, RunVars>>

NextKey == AppearanceKeyCall

SpecKey == InitKey /\ [][NextKey]_vars

(* ------------------------- the window at work --------------------------- *)

\* the window is open with its settings made: two passes, the Gemini backend
InitGui ==
    /\ NoRun
    /\ project_file = << >>
    /\ learned_file = << >>
    /\ personal_file = << >>
    /\ loaded = NotLoaded
    /\ new_items = << >>
    /\ last_call = NoCall
    /\ mtime = << >>
    /\ malformed = {}
    /\ examples_cache = EmptyCache
    /\ learned_cache = EmptyCache
    /\ ld = Idle
    /\ pure_in = NoArgs
    /\ pure_out = NoReturn
    /\ \E whole \in BOOLEAN, auto \in BOOLEAN :
         gui = [NoGui EXCEPT !.whole_document = whole, !.auto_learn = auto,
                             !.passes = 2]

GuiRest == <<FileVars, RunVars, PureVars>>

\* the user presses Expand
OnExpand ==
    /\ \E xml \in GuiInputs, go \in BOOLEAN :
         /\ ~gui.expand_running => gui.started < MaxStarts
         /\ gui' = OnExpandHandler(gui, xml, go)
    /\ UNCHANGED GuiRest

\* the user presses Cancel
OnCancelExpand ==
    /\ gui.expand_running
    /\ gui' = OnCancelExpandHandler(gui)
    /\ UNCHANGED GuiRest

\* the user ticks or unticks whole-document
OnWholeDocChange ==
    /\ gui' = OnWholeDocChangeHandler(gui, ~gui.whole_document)
    /\ UNCHANGED GuiRest

\* the worker's expand_xml at the head of a pass: the poll of cancel_check.
\* The call itself is taken to be accepted by expand_xml.
WorkerPassStart ==
    /\ \E r \in DOMAIN gui.runs :
         /\ gui.runs[r].state = "poll"
         /\ gui' = IF gui.runs[r].cancel
                   THEN [gui EXCEPT !.runs[r] = Finished("cancelled")]
                   ELSE [gui EXCEPT !.runs[r].state = "call"]
    /\ UNCHANGED GuiRest

\* the pass ends: it has failed, or it has met the cancel flag between two
\* blocks (block by block only), or it is complete
WorkerPassEnd ==
    /\ \E r \in DOMAIN gui.runs :
         /\ gui.runs[r].state = "call"
         /\ \E end \in {"error", "complete"}
                       \cup (IF gui.runs[r].cancel /\ ~gui.runs[r].whole_doc
                             THEN {"cancelled"} ELSE {}) :
              gui' = IF end = "complete"
                     THEN IF gui.runs[r].passes > 1
                          THEN [gui EXCEPT !.runs[r].passes = @ - 1,
                                           !.runs[r].state = "poll"]
                          ELSE [gui EXCEPT !.runs[r] = Finished("ok")]
                     ELSE [gui EXCEPT !.runs[r] = Finished(end)]
    /\ UNCHANGED GuiRest

\* app.root.after(0, on_done) runs
OnDone ==
    /\ \E r \in DOMAIN gui.runs :
         /\ gui.runs[r].state = "finished"
         /\ gui' = OnDoneHandler(gui, r)
    /\ UNCHANGED GuiRest

\* a root.after callback of on_done runs: _process_next_in_queue, or
\* _run_expand_internal with the last input
TimerFires ==
    /\ \E kind \in {"next", "restart"}, go \in BOOLEAN :
         /\ gui.timers[kind] > 0
         /\ (kind = "restart" \/ gui.queue # << >>) => gui.started < MaxStarts
         /\ gui' = TimerHandler(gui, kind, go)
    /\ UNCHANGED GuiRest

\* the learn thread of a run ends
LearnThread ==
    /\ \E r \in DOMAIN gui.learn, result \in LearnResults :
         /\ gui.learn[r] = "running"
         /\ gui' = Learn(gui, r, result)
    /\ UNCHANGED GuiRest

NextGui ==
    \/ OnExpand
    \/ OnCancelExpand
    \/ OnWholeDocChange
    \/ WorkerPassStart
    \/ WorkerPassEnd
    \/ OnDone
    \/ TimerFires
    \/ LearnThread

SpecGui == InitGui /\ [][NextGui]_vars

(* ---------------------- load_learned and its caller --------------------- *)

InitAlias ==
    /\ NoRun
    /\ project_file = << >>
    /\ learned_file = << >>
    /\ personal_file = << >>
    /\ loaded = NotLoaded
    /\ new_items = << >>
    /\ last_call = NoCall
    /\ mtime = << >>
    /\ malformed = {}
    /\ examples_cache = EmptyCache
    /\ learned_cache = EmptyCache
    /\ ld = Idle
    /\ gui = NoGui
    /\ pure_in \in AliasInputs
    /\ pure_out = AliasEntered

\* the caller calls load_learned(p)
LoadLearnedReturns ==
    /\ pure_in.fn = "load_learned"
    /\ Len(pure_out.returns) < MaxLoads
    /\ pure_out' = LoadLearnedObject(pure_out, pure_in.file)
    /\ UNCHANGED <<pure_in, gui, FileVars, RunVars>>

\* the caller changes the list the last call returned
MutateReturned ==
    /\ pure_in.fn = "load_learned"
    /\ pure_out.held # 0
    /\ \E list \in Mutations(pure_out.heap[pure_out.held], pure_in.file) :
         pure_out' = [pure_out EXCEPT !.heap[pure_out.held] = list]
    /\ UNCHANGED <<pure_in, gui, FileVars, RunVars>>

NextAlias ==
    \/ LoadLearnedReturns
    \/ MutateReturned

SpecAlias == InitAlias /\ [][NextAlias]_vars

(* ------------------------- the command line run -------------------------- *)

\* the parameters of expand_xml
ExpandXmlParams ==
    { "xml_source", "examples", "model", "api_key", "block_tags", "input_file_path",
      "examples_path", "dry_run", "backend", "modality", "progress_callback",
      "partial_result_callback", "max_concurrent", "passes", "cancel_check",
      "whole_document" }

\* the keyword arguments of the expand_xml call in _run_one
RunOneKeywords ==
    { "model", "api_key", "input_file_path", "examples_path", "dry_run", "backend",
      "modality", "max_concurrent", "passes", "whole_document", "max_examples",
      "example_strategy" }

\* a call with a keyword argument the function does not take
KeywordError == [type |-> "TypeError", ordinal |-> NoOrdinal, text |-> NoText]

\* the runs of the command line: the examples loaded, --max-examples (<< >>
\* when not given) and --example-strategy
CliConfigs ==
    [ doc : {FlatDoc(n) : n \in 0..MaxBlocks},
      passes : 1..MaxPassesArg,
      dry_run : BOOLEAN,
      backend : {"local"},
      whole_document : {FALSE},
      input_file : {FALSE},
      examples_path : {FALSE},
      examples_ok : {TRUE},
      block_tags : {{}},
      max_concurrent : {<< >>},
      may_fail : {TRUE},
      examples : SeqsUpTo(SelectPairs, 1),
      max_examples : {<< >>} \cup {<<n>> : n \in 0..MaxSelect},
      example_strategy : {"longest-first", "most-recent"} ]

InitCli ==
    /\ cfg \in CliConfigs
    /\ pc = "cli"
    /\ pass_num = 0
    /\ current = cfg.doc
    /\ pass_in = cfg.doc
    /\ root = cfg.doc
    /\ blocks = << >>
    /\ has_session = FALSE
    /\ open_sessions = 0
    /\ max_conc = 1
    /\ seq_i = 1
    /\ queue = << >>
    /\ running = {}
    /\ fut = << >>
    /\ yielded = {}
    /\ results = << >>
    /\ next_to_apply = 0
    /\ cur_i = 0
    /\ cancel = FALSE
    /\ cancel_seen = FALSE
    /\ error = NoError
    /\ failed_block = 0
    /\ progress = << >>
    /\ applied = << >>
    /\ started = {}
    /\ call_count = << >>
    /\ last_partial = NoText
    /\ partial_at = << >>
    /\ last_msg = NoMessage
    /\ NoExampleFiles

\* _run_one: expand_xml(xml_content, examples, model=model, ...,
\* max_examples=max_examples, example_strategy=example_strategy)
RunOne ==
    /\ pc = "cli"
    /\ IF RunOneKeywords \subseteq ExpandXmlParams
       THEN pc' = "pass_start" /\ UNCHANGED error
       ELSE pc' = "done" /\ error' = KeywordError
    /\ UNCHANGED <<cfg, pass_num, current, has_session, open_sessions, cancel,
                   cancel_seen, failed_block, last_partial, last_msg, PassVars, ExVars>>

NextCli == RunOne

SpecCli == InitCli /\ [][NextCli]_vars

(* ------------------------------------------------------------------------ *)
(* Properties                                                               *)
(* ------------------------------------------------------------------------ *)

InPass == pc \notin {"pass_start", "once"}
ParallelPcs == {"submit", "collect", "apply", "shutdown"}
AppliedSet == {applied[k] : k \in 1..Len(applied)}
ElementIds(doc) == [k \in 1..Len(doc) |-> doc[k].id]
PositionOf(doc, el) == CHOOSE k \in 1..Len(doc) : doc[k].id = el
ConfiguredLimit == ConfiguredConcurrent(cfg.max_concurrent, cfg.backend, cfg.dry_run)

\* C1: in block-by-block mode, whatever the completion order, the blocks
\* applied to the tree are always the contiguous prefix 1..k in ascending
\* order, progress_callback gets the ordinals in ascending order, and when the
\* pass ends without an error every block element holds the result computed
\* from its own text.
C1_AppliedInOrdinalOrder ==
    /\ \A k \in 1..Len(applied) : applied[k] = k
    /\ \A k \in 1..Len(progress) : progress[k] = k
    /\ (pc \in {"collect", "apply", "shutdown"}) => progress = applied
    /\ (pc = "finally" /\ error = NoError) =>
          \A k \in 1..total :
              NodeOf(root, blocks[k].el).text =
                  ExpandOneResult(cfg.dry_run, InnerText(pass_in, blocks[k].el))

\* C1 witness: three blocks, the future of block 1 was the last one collected
\* (blocks 2 and 3 were buffered), and all three have been applied in order.
C1_Witness ==
    /\ pc = "apply"
    /\ total = 3
    /\ cur_i = 1
    /\ yielded = {1, 2, 3}
    /\ applied = <<1, 2, 3>>

\* C2: once a poll of the cancellation predicate has answered True, no
\* transform call that had not started is started (the remaining blocks are
\* not drained), and expand_xml ends by raising ExpandCancelled.
C2_NoStartAfterCancelSeen ==
    [][cancel_seen =>
          /\ started' \subseteq started
          /\ (pc' = "done" => error' = Cancelled)]_vars

\* C3: in every mode the predicate is polled before each transform call is
\* scheduled and before each result is applied: while the predicate answers
\* True no transform call is scheduled and no result is applied.
Scheduled == started \cup {i \in 1..Len(fut) : fut[i] # "new"}
C3_NoScheduleOrApplyWhileCancelled ==
    [][cancel =>
          /\ Scheduled' \subseteq Scheduled
          /\ Len(applied') <= Len(applied)]_vars

\* C4: no file session is still open when expand_xml has returned or raised,
\* on any exit path, in both modes.
C4_NoSessionLeftOpen == (pc = "done") => (open_sessions = 0 /\ ~has_session)

\* C7: at most max_concurrent (at least 1) transform calls are in flight; when
\* max_concurrent is 1 or less the pass is the sequential loop, where a block's
\* transform starts only after every lower block has been applied.
C7_BoundedInFlight ==
    /\ Cardinality(running) <= Max(1, ConfiguredLimit)
    /\ (InPass /\ ConfiguredLimit <= 1) =>
          /\ pc \notin ParallelPcs
          /\ \A i \in started : \A j \in 1..(i - 1) : j \in AppliedSet

\* C7 witness: max_concurrent = 2, two transform calls in flight and a third
\* block waiting in the queue.
C7_Witness ==
    /\ cfg.max_concurrent = <<2>>
    /\ Cardinality(running) = 2
    /\ queue # << >>

\* C8: while a pass holds a file session, transform calls run one at a time
\* in the sequential loop, whatever max_concurrent was configured.
C8_SessionIsSequential ==
    (InPass /\ has_session /\ ~WholeDocBranch(cfg)) =>
        /\ Cardinality(running) <= 1
        /\ pc \notin ParallelPcs
        /\ queue = << >>

\* C8 witness: a session is held, max_concurrent = 3 was asked for and the
\* second of several blocks is being transformed.
C8_Witness ==
    /\ has_session
    /\ cfg.max_concurrent = <<3>>
    /\ pc = "seq_call"
    /\ total >= 2
    /\ running = {2}

\* C9: once the failure of a block's transform call has been observed, no
\* result is applied, no transform that had not started is started, no later
\* pass is run, and the failure reaches the caller of expand_xml.
C9_FailureAbortsThePass ==
    [][failed_block # 0 =>
          /\ Len(applied') <= Len(applied)
          /\ started' \subseteq started
          /\ pass_num' = pass_num
          /\ (pc' = "done" => error' # NoError)]_vars

Elements(doc) == {doc[k] : k \in 1..Len(doc)}
BlockEls == {blocks[k].el : k \in 1..Len(blocks)}
AppliedEls == {blocks[applied[k]].el : k \in 1..Len(applied)}

\* el lies inside a block that has been applied in this pass
InsideApplied(el) == \E b \in AppliedEls : IsDescendant(pass_in, el, b)

\* C5 as stated: a block-by-block pass changes only text: every element of
\* the pass's input (also one nested inside a block) is in the tree, with its
\* tag, its attributes and its place in document order.
C5_EveryElementPreserved ==
    InPass =>
        /\ ElementIds(root) = ElementIds(pass_in)
        /\ \A k \in 1..Len(root) :
              /\ root[k].tag = pass_in[k].tag
              /\ root[k].att = pass_in[k].att

\* C5 amended: a block-by-block pass keeps every element that is not inside
\* an applied block, the block elements included, with its tag, attributes,
\* parent, tail and place in document order, and changes the text of applied
\* blocks only; the child elements of an applied block are removed, its whole
\* content becoming one text (the transform's result, in dry-run mode the
\* block's own concatenated text).
C5_ElementsOutsideBlocksPreserved ==
    InPass =>
        /\ ElementIds(root) =
              ElementIds(SelectSeq(pass_in, LAMBDA n : ~InsideApplied(n.id)))
        /\ \A m \in Elements(root) :
              LET n == NodeOf(pass_in, m.id)
              IN  /\ m.tag = n.tag
                  /\ m.att = n.att
                  /\ m.par = n.par
                  /\ m.tail = n.tail
                  /\ IF m.id \in AppliedEls
                     THEN /\ m.text = ExpandOneResult(cfg.dry_run, InnerText(pass_in, m.id))
                          /\ ~\E c \in Elements(root) : c.par = m.id
                     ELSE m.text = n.text

\* C5 witness: in dry-run mode a block that had a child element has been
\* applied, and an element outside it is still there.
C5_Witness ==
    /\ InPass
    /\ cfg.dry_run
    /\ \E n \in Elements(pass_in) : InsideApplied(n.id)
    /\ Len(root) >= 2

\* the text content of el is not empty or whitespace-only: some character
\* that is not whitespace stands in its text or in the text or tail of one of
\* its descendants
HasContent(doc, el) ==
    \E n \in Elements(doc) :
        \/ n.id = el /\ ~IsBlank(n.text)
        \/ IsDescendant(doc, n.id, el) /\ (~IsBlank(n.text) \/ ~IsBlank(n.tail))

\* the elements the specification calls blocks
LeafmostNonEmpty(doc, tags) ==
    { n.id : n \in { m \in Elements(doc) :
        /\ m.tag \in tags
        /\ ~\E d \in Elements(doc) : IsDescendant(doc, d.id, m.id) /\ d.tag \in tags
        /\ HasContent(doc, m.id) } }

\* the texts and tails that make up the text content of el
TextPieces(doc, el) ==
    {<<el, "text">>} \cup
    UNION { {<<n.id, "text">>, <<n.id, "tail">>} :
              n \in {m \in Elements(doc) : IsDescendant(doc, m.id, el)} }

\* C6: the block list of a pass is exactly the elements whose local tag name
\* is in the tag set, that have no descendant with such a tag and whose text
\* content is not empty or whitespace-only, in document order; no block is an
\* ancestor of another and no text is part of two blocks.
C6_BlocksAreLeafmostNonEmpty ==
    InPass =>
        /\ BlockEls = LeafmostNonEmpty(pass_in, EffectiveTags(cfg.block_tags))
        /\ \A j, k \in 1..Len(blocks) :
              j < k =>
                 /\ PositionOf(pass_in, blocks[j].el) < PositionOf(pass_in, blocks[k].el)
                 /\ ~IsDescendant(pass_in, blocks[j].el, blocks[k].el)
                 /\ ~IsDescendant(pass_in, blocks[k].el, blocks[j].el)
                 /\ TextPieces(pass_in, blocks[j].el) \cap
                        TextPieces(pass_in, blocks[k].el) = {}

\* C6 witness: an element with a tag of the set is no block because a
\* descendant of it with such a tag is one, and another element with such a
\* tag is no block because its text content is blank.
C6_Witness ==
    /\ InPass
    /\ LET tags == EffectiveTags(cfg.block_tags)
       IN  /\ \E a, d \in Elements(pass_in) :
                 /\ a.tag \in tags /\ d.tag \in tags
                 /\ IsDescendant(pass_in, d.id, a.id)
                 /\ d.id \in BlockEls /\ a.id \notin BlockEls
           /\ \E b \in Elements(pass_in) :
                 /\ b.tag \in tags
                 /\ ~HasDescendantBlock(pass_in, b.id, tags)
                 /\ b.id \notin BlockEls


\* C11: the scheduler never retries a block: in one pass expand_one is called
\* at most once for each block, also when the pass fails or is cancelled, and
\* exactly once for each block when the pass ends without an error.
C11_TransformAtMostOncePerBlock ==
    /\ \A k \in DOMAIN call_count : call_count[k] <= 1
    /\ ( /\ error = NoError
         /\ ~WholeDocBranch(cfg)
         /\ pc = "finally" \/ (pc \in {"pass_start", "done"} /\ pass_num >= 1) ) =>
          /\ DOMAIN call_count = 1..total
          /\ \A k \in 1..total : call_count[k] = 1

\* C11 witness: a parallel pass over three blocks has ended without an error.
C11_Witness ==
    /\ pc = "finally"
    /\ error = NoError
    /\ total = 3
    /\ ~UseSequential(max_conc, total)

\* the document shows the new text of the blocks in S and the original text of
\* the pass's other blocks
PartialShows(doc, S) ==
    \A k \in 1..total :
        IF k \in S
        THEN /\ NodeOf(doc, blocks[k].el).text = ExpandOneResult(cfg.dry_run, blocks[k].raw)
             /\ ChildrenOf(doc, blocks[k].el) = << >>
        ELSE InnerText(doc, blocks[k].el) = InnerText(pass_in, blocks[k].el)

\* C12: when a block-by-block pass ends with ExpandCancelled, the document
\* given to the latest partial_result_callback call shows exactly the blocks
\* applied before the cancellation: the new text of every applied block and
\* the original text of every other block.
C12_LastPartialShowsAppliedBlocks ==
    (pc = "finally" /\ error = Cancelled /\ last_partial # NoText) =>
        PartialShows(last_partial, AppliedSet)

\* C13: after each applied block a partial result is emitted, throttled: in a
\* pass of at most 8 blocks once for every applied block; in a pass of more
\* than 8 blocks, whatever the concurrency, never for two applied blocks in a
\* row unless the second is the final block, and always for the final block.
C13_PartialResultsThrottled ==
    /\ \A j \in 1..Len(partial_at) : partial_at[j] \in AppliedSet
    /\ total <= ThrottleAbove => partial_at = applied
    /\ total > ThrottleAbove =>
          /\ \A j \in 1..(Len(partial_at) - 1) :
                 partial_at[j + 1] = total \/ partial_at[j + 1] >= partial_at[j] + 2
          /\ total \in AppliedSet => partial_at[Len(partial_at)] = total

\* C14: expand_xml runs exactly min(5, max(1, passes)) passes: the output of
\* pass K is the input of pass K+1 and the value returned is the output of
\* the last pass (after K passes every text of the document has been
\* expanded K times).
C14_ClampedPassesChained ==
    LET n == IF cfg.passes < 1 THEN 1
             ELSE IF cfg.passes > MaxPassClamp THEN MaxPassClamp ELSE cfg.passes
    IN  /\ pass_num <= n
        /\ (pc = "done" /\ error = NoError) => pass_num = n
        /\ (pc \in {"seq", "seq_call", "finally"}) => pass_in = current
        /\ Len(current) = Len(cfg.doc)
        /\ \A k \in 1..Len(cfg.doc) :
              ~IsBlank(cfg.doc[k].text) =>
                  Len(current[k].text) = Len(cfg.doc[k].text) + pass_num

\* C14 witness: a run asked for two passes more than the upper limit has
\* returned after that limit's number of passes.
C14_Witness ==
    /\ pc = "done"
    /\ error = NoError
    /\ cfg.passes = MaxPassClamp + 2
    /\ pass_num = MaxPassClamp

\* C15: once a poll of the cancellation predicate has answered True the run
\* starts no further pass and ends with ExpandCancelled; the predicate is
\* polled at the start of every pass, so a pass that finds it already True
\* does not begin and calls no transform.
C15_CancelEndsTheRun ==
    [][ /\ cancel_seen =>
             /\ pass_num' = pass_num
             /\ pc' \notin {"pass_start", "once", "whole_call"}
             /\ pc' = "done" => error' = Cancelled
        /\ (pc = "pass_start" /\ cancel /\ pass_num < passes /\ pc' # pc) =>
             /\ pc' = "done"
             /\ error' = Cancelled
             /\ call_count' = call_count
             /\ started' = started
             /\ running' = running ]_vars

\* C15 witness: a two-pass run over three blocks was cancelled by the poll at
\* the start of pass 2 (pass 1 is complete, nothing of pass 2 has begun).
C15_Witness ==
    /\ pc = "done"
    /\ error = Cancelled
    /\ passes = 2
    /\ pass_num = 1
    /\ total = 3
    /\ Len(applied) = 3

\* C16: when the clamped pass count N is greater than 1, every progress
\* message delivered during pass K (the pass-start message and every
\* per-block message) begins with "Pass K/N: "; when N is 1 no message
\* carries the prefix.
C16_MessagesCarryPassPrefix ==
    last_msg # NoMessage =>
        last_msg.prefix = (IF passes > 1 THEN <<last_msg.pass, passes>> ELSE << >>)

\* C17: only the coordinating thread changes or serializes the tree: a step
\* of a pool worker (a transform call starting or ending) leaves the tree,
\* the partial result and the coordinator's position alone, and what a worker
\* returns is computed from the block's raw text taken before the pass began
\* to change the tree.
C17_OnlyCoordinatorTouchesTree ==
    [][ /\ (pc \in ParallelPcs /\ running' # running) =>
             /\ root' = root
             /\ last_partial' = last_partial
             /\ applied' = applied
             /\ pc' = pc
        /\ (pc' \in ParallelPcs) =>
             \A k \in 1..Len(results') :
                 results'[k] # NoResult =>
                     results'[k] =
                         ExpandOneResult(cfg.dry_run, InnerText(pass_in', blocks'[k].el)) ]_vars

\* C17 witness: the coordinator has applied a block and is in its apply loop
\* while a worker's transform call is in flight.
C17_Witness ==
    /\ pc = "apply"
    /\ running # {}
    /\ Len(applied) >= 1

\* the pairs load_examples went through, layer after layer
LayersRead ==
    project_file
        \o (IF loaded.include_learned THEN LoadLearned(learned_file) ELSE << >>)
        \o (IF loaded.include_personal THEN personal_file ELSE << >>)

\* C18: load_examples merges the project file, the project-adjacent learned
\* file and the personal learned file in that order, first occurrence winning
\* per appearance_key: the result is exactly the pairs (stripped) that have a
\* non-empty diplomatic text and no earlier pair of the same key, in order; it
\* never holds two pairs of one key nor a pair with an empty diplomatic text.
C18_FirstOccurrenceWins ==
    (loaded.called /\ ~loaded.raised) =>
        LET all == LayersRead
            res == loaded.result
            D(i) == Strip(all[i].diplomatic)
            Wins(i) == /\ D(i) # << >>
                       /\ \A j \in 1..(i - 1) :
                             D(j) = << >> \/ AppearanceKey(D(j)) # AppearanceKey(D(i))
            winners == SelectSeq([i \in 1..Len(all) |-> i], Wins)
        IN  /\ Len(res) = Len(winners)
            /\ \A k \in 1..Len(winners) :
                  res[k] = [diplomatic |-> D(winners[k]),
                            full |-> Strip(all[winners[k]].full)]
            /\ \A k \in 1..Len(res) : res[k].diplomatic # << >>
            /\ \A k, l \in 1..Len(res) :
                  k # l => AppearanceKey(res[k].diplomatic) # AppearanceKey(res[l].diplomatic)

\* C18 witness: a load with the personal layer where a personal pair looks the
\* same as a project pair but is another text; only the project pair is returned.
C18_Witness ==
    /\ loaded.called
    /\ loaded.include_personal
    /\ \E i \in 1..Len(project_file), j \in 1..Len(personal_file) :
          /\ Strip(project_file[i].diplomatic) # << >>
          /\ Strip(project_file[i].diplomatic) # Strip(personal_file[j].diplomatic)
          /\ AppearanceKey(project_file[i].diplomatic)
                = AppearanceKey(personal_file[j].diplomatic)
    /\ Len(loaded.result) = 1

\* the learned pool's entry for a key: the items of the file with that key
PoolEntry(file, key) ==
    SelectSeq(file, LAMBDA e : AppearanceKey(e.diplomatic) = key)

PoolKeys(file) == {AppearanceKey(file[k].diplomatic) : k \in 1..Len(file)}

\* the candidate passes the loop's first test
ValidCandidate(c) ==
    /\ Strip(c.diplomatic) # << >>
    /\ Strip(c.diplomatic) # Strip(c.full)

\* the step in which a call of add_learned_pairs writes the pool and returns:
\* learned_file is the pool before the call, learned_file' the pool after it
CallReturns == last_call.called /\ ~last_call'.called

\* C19 as stated: after add_learned_pairs with local_diplomatic, the pool's
\* entry for every authoritative key, present or absent, is exactly what it
\* was before the call, for a pro and for a non-pro source.
C19_AuthoritativeEntriesUnchanged ==
    [][ CallReturns =>
          \A key \in LocalKeys(last_call.local) :
              PoolEntry(learned_file', key) = PoolEntry(learned_file, key) ]_vars

\* C19 amended: after add_learned_pairs with local_diplomatic, the pool's
\* entry for every authoritative key is what it was before the call, or it is
\* gone because the cap evicted it (the pool is then at least max_learned
\* long); no candidate is ever stored under such a key.
C19_AuthoritativeEntriesNeverReplaced ==
    [][ CallReturns =>
          \A key \in LocalKeys(last_call.local) :
              \/ PoolEntry(learned_file', key) = PoolEntry(learned_file, key)
              \/ /\ PoolEntry(learned_file', key) = << >>
                 /\ Len(learned_file') >= last_call.max_learned ]_vars

\* C19 witness: a call of a pro source with a valid candidate for an
\* authoritative key whose stored entry is not pro; the items about to be
\* written still hold the stored entry.
C19_Witness ==
    /\ last_call.called
    /\ IsProModel(last_call.model)
    /\ \E i \in 1..Len(last_call.pairs) :
          LET key == AppearanceKey(last_call.pairs[i].diplomatic)
          IN  /\ ValidCandidate(last_call.pairs[i])
              /\ key \in LocalKeys(last_call.local)
              /\ PoolEntry(learned_file, key) # << >>
              /\ ~PoolEntry(learned_file, key)[1].pro
              /\ PoolEntry(new_items, key) = PoolEntry(learned_file, key)

\* the entry is one of the call's valid candidates for the key, marked pro
IsProCandidate(entry, key) ==
    \E i \in 1..Len(last_call.pairs) :
        /\ ValidCandidate(last_call.pairs[i])
        /\ AppearanceKey(last_call.pairs[i].diplomatic) = key
        /\ entry = <<[diplomatic |-> Strip(last_call.pairs[i].diplomatic),
                      full |-> Strip(last_call.pairs[i].full),
                      pro |-> TRUE]>>

\* the valid candidates' keys of the call
CandidateKeys ==
    {AppearanceKey(last_call.pairs[i].diplomatic) :
        i \in {j \in 1..Len(last_call.pairs) : ValidCandidate(last_call.pairs[j])}}

\* the stored entry for the key is there and not pro / there and pro
StoredNonPro(file, key) ==
    PoolEntry(file, key) # << >> /\ ~PoolEntry(file, key)[1].pro
StoredPro(file, key) ==
    PoolEntry(file, key) # << >> /\ PoolEntry(file, key)[1].pro

\* C20 as stated: per appearance key, an incoming pair of a pro source always
\* replaces a stored non-pro pair and marks the entry pro, an incoming pair of
\* a non-pro source never changes a stored pro pair, and no call turns an
\* entry's pro flag from true to false.
C20_ProAlwaysWins ==
    [][ CallReturns =>
          /\ IsProModel(last_call.model) =>
                \A key \in CandidateKeys :
                    StoredNonPro(learned_file, key) =>
                        IsProCandidate(PoolEntry(learned_file', key), key)
          /\ ~IsProModel(last_call.model) =>
                \A key \in PoolKeys(learned_file) :
                    StoredPro(learned_file, key) =>
                        PoolEntry(learned_file', key) = PoolEntry(learned_file, key)
          /\ \A key \in PoolKeys(learned_file) :
                StoredPro(learned_file, key) => ~StoredNonPro(learned_file', key) ]_vars

\* C20 amended: per appearance key that is not authoritative, a valid
\* incoming pair of a pro source replaces a stored non-pro pair and marks the
\* entry pro; an incoming pair of a non-pro source leaves a stored pro pair as
\* it is; in both cases the cap may evict the entry afterwards (the pool is
\* then at least max_learned long); an entry that stays in the pool never has
\* its pro flag turned from true to false.
C20_ProWinsUnlessDroppedOrEvicted ==
    [][ CallReturns =>
          LET Evicted(key) == /\ PoolEntry(learned_file', key) = << >>
                              /\ Len(learned_file') >= last_call.max_learned
          IN  /\ IsProModel(last_call.model) =>
                    \A key \in CandidateKeys \ LocalKeys(last_call.local) :
                        StoredNonPro(learned_file, key) =>
                            \/ IsProCandidate(PoolEntry(learned_file', key), key)
                            \/ Evicted(key)
              /\ ~IsProModel(last_call.model) =>
                    \A key \in PoolKeys(learned_file) :
                        StoredPro(learned_file, key) =>
                            \/ PoolEntry(learned_file', key) = PoolEntry(learned_file, key)
                            \/ Evicted(key)
              /\ \A key \in PoolKeys(learned_file) :
                    StoredPro(learned_file, key) => ~StoredNonPro(learned_file', key) ]_vars

\* C20 witness: a call of a pro source is about to replace a stored non-pro
\* entry by its candidate, another text of the same appearance key, marked pro.
C20_Witness ==
    /\ last_call.called
    /\ IsProModel(last_call.model)
    /\ \E key \in CandidateKeys :
          /\ StoredNonPro(learned_file, key)
          /\ IsProCandidate(PoolEntry(new_items, key), key)
          /\ PoolEntry(new_items, key)[1].diplomatic
                # PoolEntry(learned_file, key)[1].diplomatic

\* the pool of the call before the cap is applied: the stored entries and the
\* candidates merged, in the order of the dict
MergedItems ==
    LET st == MergePairs([existing |-> ExistingOf(LoadLearned(learned_file), << >>),
                          added |-> 0],
                         last_call.pairs, IsProModel(last_call.model),
                         LocalKeys(last_call.local))
    IN  [k \in 1..Len(st.existing) |->
            [diplomatic |-> st.existing[k].diplomatic,
             full |-> st.existing[k].full,
             pro |-> st.existing[k].pro]]

\* the n newest of the items (none when n = 0)
Newest(items, n) ==
    IF n >= Len(items) THEN items
    ELSE SubSeq(items, Len(items) - n + 1, Len(items))

\* C21: after every add_learned_pairs call, for every max_learned, the
\* written pool holds at most max_learned entries; on overflow the pro entries
\* all stay and the oldest non-pro entries go, and pro entries go (the oldest
\* first) only when they alone exceed the cap.
C21_PoolWithinCap ==
    [][ CallReturns =>
          LET pro_items == SelectSeq(MergedItems, LAMBDA x : x.pro)
              flash_items == SelectSeq(MergedItems, LAMBDA x : ~x.pro)
              cap == last_call.max_learned
          IN  /\ Len(learned_file') <= cap
              /\ Len(MergedItems) <= cap => learned_file' = MergedItems
              /\ (Len(MergedItems) > cap /\ Len(pro_items) <= cap) =>
                    learned_file' = pro_items \o Newest(flash_items, cap - Len(pro_items))
              /\ Len(pro_items) > cap => learned_file' = Newest(pro_items, cap) ]_vars

LoadOpens == ld.pc = "idle" /\ ld'.pc # "idle"
\* the step in which load_examples stores what it has read in the cache
LoadCaches == ld.pc = "cache" /\ ld'.pc = "layers"

\* the entries of the other paths are in the cache as they were
OthersInPlace(p) ==
    \A q \in DOMAIN examples_cache \ {p} :
        q \in DOMAIN examples_cache' /\ examples_cache'[q] = examples_cache[q]

\* a load of a path cached with the file's mtime takes the cached pairs; a
\* load of a path cached with another mtime reads the file
HitIffSameMtime ==
    LoadOpens =>
        LET p == ld'.path
        IN  /\ (p \in DOMAIN examples_cache /\ examples_cache[p].mtime = mtime[p]) =>
                  (ld'.hit /\ ld'.layer = examples_cache[p].data)
            /\ (p \in DOMAIN examples_cache /\ examples_cache[p].mtime # mtime[p]) =>
                  (~ld'.hit /\ ld'.stale /\ ld'.layer = FileData(p))

C23_ClearedOnlyAboveEightPaths ==
    [][ LoadCaches =>
          IF Cardinality(DOMAIN examples_cache) > CacheLimit
          THEN DOMAIN examples_cache' = {ld.path}
          ELSE /\ DOMAIN examples_cache \subseteq DOMAIN examples_cache'
               /\ OthersInPlace(ld.path) ]_vars

\* C24: save_examples writes the diplomatic and full fields only and drops
\* the path's cache entry, so that, however loads and saves interleave, the
\* load that follows takes the pairs of the file as saved, never pairs
\* cached before.
C24_LoadAfterSaveIsFresh ==
    [][ /\ \A k \in 1..Len(project_file') : ~project_file'[k].pro
        /\ (LoadOpens /\ ld'.path = ProjectPath) => ld'.layer = project_file ]_vars

\* res holds cap of the pairs of ex, and none of the pairs left out has a
\* larger Size than one of those taken
IsLargest(res, ex, cap, Size(_)) ==
    \E I \in SUBSET (1..Len(ex)) :
        /\ Cardinality(I) = cap
        /\ Len(res) = cap
        /\ \E f \in [1..cap -> I] :
              /\ \A k, l \in 1..cap : k # l => f[k] # f[l]
              /\ \A k \in 1..cap : res[k] = ex[f[k]]
        /\ \A i \in I, j \in (1..Len(ex)) \ I : Size(ex[i]) >= Size(ex[j])

\* the call was select_examples_for_prompt with this strategy and has returned
Selected(strategy) ==
    /\ pure_in.fn = "select_examples_for_prompt"
    /\ pure_in.strategy = strategy
    /\ pure_out.called

\* the cap of the call is set and is n
CapIs(n) == pure_in.max_examples = <<n>>

RawLength(e) == Len(e.diplomatic)

\* C27 as stated: with longest-first, all pairs are returned unchanged when
\* the cap is unset or >= len(pairs); for 0 <= cap < len(pairs) exactly cap
\* pairs of the input are returned, each with a diplomatic text at least as
\* long as that of every pair not returned.
C27_LongestFirstByLength ==
    Selected("longest-first") =>
        LET ex == pure_in.examples
            res == pure_out.result
        IN  /\ (pure_in.max_examples = << >> \/ \E n \in Len(ex)..MaxSelect : CapIs(n)) =>
                  res = ex
            /\ \A cap \in 0..(Len(ex) - 1) :
                  CapIs(cap) => IsLargest(res, ex, cap, RawLength)

\* C27 amended: as above, the length being that of the diplomatic text
\* without its leading and trailing whitespace.
C27_LongestFirstByStrippedLength ==
    Selected("longest-first") =>
        LET ex == pure_in.examples
            res == pure_out.result
        IN  /\ (pure_in.max_examples = << >> \/ \E n \in Len(ex)..MaxSelect : CapIs(n)) =>
                  res = ex
            /\ \A cap \in 0..(Len(ex) - 1) :
                  CapIs(cap) => IsLargest(res, ex, cap, KeyFn)

\* C27 witness: longest-first with cap 1 on three pairs of three stripped
\* lengths, the longest in the middle, has returned that pair alone.
C27_Witness ==
    /\ Selected("longest-first")
    /\ CapIs(1)
    /\ Len(pure_in.examples) = 3
    /\ KeyFn(pure_in.examples[2]) > KeyFn(pure_in.examples[1])
    /\ KeyFn(pure_in.examples[2]) > KeyFn(pure_in.examples[3])
    /\ pure_out.result = <<pure_in.examples[2]>>

\* C28: with most-recent, for 0 <= cap < len(pairs) exactly the last cap
\* pairs of the input are returned, in store order; a cap below 0 behaves as
\* 0.
C28_MostRecentLastCap ==
    Selected("most-recent") =>
        LET ex == pure_in.examples
            res == pure_out.result
        IN  /\ \A cap \in 0..(Len(ex) - 1) :
                  CapIs(cap) => (res = Newest(ex, cap) /\ Len(res) = cap)
            /\ (ex # << >> /\ CapIs(0 - 1)) => res = << >>

\* C26: a run configured with an example cap and a selection strategy
\* executes: the call of expand_xml that _run_one makes is accepted, so the
\* run does not end on an error raised by the call itself before the first
\* pass (the examples of every backend call are then the selection of
\* examples, cap, strategy)
C26_CappedRunExecutes ==
    (pc = "done" /\ cfg.max_examples # << >>) => error # KeywordError

\* the pair as filter_quality hands it on: both texts stripped
Stripped(pair) == [diplomatic |-> Strip(pair.diplomatic), full |-> Strip(pair.full)]

\* a pair is rejected iff either side is empty, the two sides are identical,
\* the non-whitespace characters of either side are at least 80% non-letters,
\* or the full side holds a leakage marker
Rejected(pair) ==
    LET diplomatic == Strip(pair.diplomatic)
        full == Strip(pair.full)
    IN  \/ diplomatic = << >>
        \/ full = << >>
        \/ diplomatic = full
        \/ PunctRatioAtLeast(diplomatic)
        \/ PunctRatioAtLeast(full)
        \/ LeakageSearch(full)

Filtered == pure_in.fn = "filter_quality" /\ pure_out.called

\* C29: filter_quality returns exactly the input pairs that are not
\* rejected, in input order and whether or not two of them look the same
\* (deduplication is the caller's).
C29_ExactlyThePassingPairs ==
    Filtered =>
        pure_out.result =
            SelectSeq([k \in 1..Len(pure_in.pairs) |-> Stripped(pure_in.pairs[k])],
                      LAMBDA e : ~Rejected(e))

\* ValueError("Invalid or empty XML ...")
InvalidXmlError ==
    [type |-> "ValueError", ordinal |-> NoOrdinal, text |-> <<"Invalid or empty XML">>]

\* C30: expand_xml on a source that is not XML at all fails with a
\* ValueError whose message contains "Invalid or empty XML", and valid XML
\* that has no blocks ends without an error: the two outcomes differ.
C30_NotXmlRaisesValueError ==
    (pc = "done" /\ ~cancel) =>
        /\ cfg.doc = NotXmlDoc => error = InvalidXmlError
        /\ cfg.doc = FlatDoc(0) => error = NoError

\* the function has been called on its own and has returned or raised
Called(fn) == pure_in.fn = fn /\ pure_out.called

\* C31: on a source that is not XML the read-only extractions do not raise:
\* get_block_ranges returns [], extract_expansion_pairs returns [] when either
\* document is invalid, extract_text_lines returns the empty string.
C31_ExtractionsNeverRaise ==
    /\ (Called("get_block_ranges") /\ pure_in.xml_input = NotXmlDoc)
          => pure_out.result = Returns(<< >>)
    /\ (Called("extract_expansion_pairs")
          /\ (pure_in.xml_input = NotXmlDoc \/ pure_in.xml_output = NotXmlDoc))
          => pure_out.result = Returns(<< >>)
    /\ (Called("extract_text_lines") /\ pure_in.xml_input = NotXmlDoc)
          => pure_out.result = Returns(<< >>)

\* C32: with backend "rules" no call goes to the Gemini API or to a local
\* model, and the block's new text is its text with every occurrence of an
\* example's diplomatic form replaced by the full form, longest forms first.
C32_RulesBackendSubstitutes ==
    (Called("_expand_text_block") /\ pure_in.backend = "rules") =>
        /\ pure_out.result.calls = {}
        /\ pure_out.result.error = NoError
        /\ pure_out.result.value = RunLocalRules(pure_in.text, pure_in.examples)

\* run_gemini has returned or raised
GeminiDone == pure_in.fn = "run_gemini" /\ pure_out.stage = "done"

\* C33: an attempt that fails with TimeoutError is retried, and the retry's
\* result is returned when it succeeds: one timeout followed by a success
\* yields the success value after exactly two attempts.
C33_TimeoutIsRetried ==
    (/\ GeminiDone
     /\ pure_in.has_key
     /\ pure_in.outcomes[1] = "timeout"
     /\ pure_in.outcomes[2] = "ok") =>
        /\ ~pure_out.raised
        /\ pure_out.outcome = "ok"
        /\ pure_out.made = 2

C35_SameLookSameKey ==
    Called("appearance_key") => pure_out.result[1] = pure_out.result[2]

(* ------------------------- the window: properties ----------------------- *)

\* a worker thread is in expand_xml or its on_done has not run yet
Live(r) == r \in DOMAIN gui.runs /\ gui.runs[r].state \in {"poll", "call", "finished"}

\* C36: the on_done of a superseded run (its run id is not the current one)
\* leaves the output as it is and, while the current run is in progress,
\* leaves expand_running true, the hang check running and Cancel enabled
C36_SupersededCompletionChangesNothing ==
    [][\A r \in DOMAIN gui.runs :
          (/\ gui.runs[r].state = "finished"
           /\ gui.expand_run_id # r
           /\ gui' = OnDoneHandler(gui, r))
          => /\ gui'.output = gui.output
             /\ gui.expand_running
                  => gui'.expand_running /\ gui'.hang_check /\ gui'.cancel_enabled]_vars

\* C37: a job never waits in the queue while no run is active and nothing is
\* left that would start it: no worker, no on_done and no timer to come
C37_QueuedJobIsStarted ==
    ~(/\ gui.queue # << >>
      /\ ~gui.expand_running
      /\ gui.timers.next = 0
      /\ gui.timers.restart = 0
      /\ \A r \in DOMAIN gui.runs : ~Live(r))

\* C38: the request to restart block by block is pending only while the run
\* it was made for has not ended
C38_RestartNeverStaysPending == gui.restart => Live(gui.event)

\* C34: learning starts for a run only in the step that put its result into
\* the output panel and scheduled the next job of the queue; the end of a
\* learn thread, failed or not, changes nothing but that thread's own state;
\* and no error of learning is ever shown
C34_LearningFailuresAreSwallowed ==
    [][/\ \A r \in DOMAIN gui'.learn :
            r \notin DOMAIN gui.learn
              => /\ gui'.output = r
                 /\ gui'.timers.next = gui.timers.next + 1
       /\ \A r \in DOMAIN gui.learn :
            (r \in DOMAIN gui'.learn /\ gui'.learn[r] # gui.learn[r])
              => /\ gui.learn[r] = "running"
                 /\ gui' = [gui EXCEPT !.learn[r] = gui'.learn[r]]
       /\ "learning" \notin gui'.dialogs]_vars

\* the learning of a delivered run has failed, no error is shown, and the
\* job that was queued behind that run has been started
C34_Witness ==
    \E r \in DOMAIN gui.learn :
        /\ gui.learn[r] = "failed"
        /\ gui.output = r
        /\ gui.dialogs = {}
        /\ \E s \in DOMAIN gui.runs : s > r /\ Live(s)

\* C39: the file being unchanged, every load_learned returns the pairs of the
\* file, whatever the caller did to the lists returned before
C39_ReturnedListIsIndependent ==
    \A i \in 1..Len(pure_out.returns) :
        pure_in.fn = "load_learned" => pure_out.returns[i] = LoadLearned(pure_in.file)

====
